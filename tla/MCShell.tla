------------------------------ MODULE MCShell -------------------------------
(* Small instances of Shell for TLC. *)
EXTENDS Shell

A(x) == <<"arg", x>>
In == <<"in", "f">>
Out == <<"out", "f">>

\* One and two commands, redirections against pipes, background pipelines,
\* builtins, a program that is not there, and lines that are not well formed.
ShortLines == {
    <<>>, <<Bar>>, <<In>>, <<A("exit")>>, <<A("cd"), A("d")>>,
    <<A("cat"), Out, In>>, <<A("nothing")>>,
    <<A("yes"), Bar, A("head")>>,
    <<A("yes"), Bar, A("head"), Amp>>,
    <<A("echo"), Bar, A("cat"), In, Amp>>, <<A("head"), Amp>>,
    <<A("cat"), Out, Bar, A("cat"), In>>,
    <<A("cat"), Bar>>, <<A("head"), Bar, Bar, A("cat")>> }

\* Three commands.
LongLines == { <<A("cat"), Bar, A("cat"), Bar, A("head")>> }
=============================================================================

------------------------------ MODULE Parsing -------------------------------
(***************************************************************************)
(* lab1: from a line to a pipeline (parsing.c) and back (the to_string     *)
(* operations of command.c).                                               *)
(*                                                                         *)
(* A line is a sequence of tokens without the end of line.  A token is     *)
(* <<"arg", a>>, <<"in", f>> for "< f", <<"out", f>> for "> f", Bar or     *)
(* Amp.  The lexer, parser.o, comes without source: parser_next_argument   *)
(* is modelled from parser.h, and stops at Bar, at Amp and at the end.     *)
(***************************************************************************)
EXTENDS Integers, Sequences, SequencesExt

Bar == <<"bar">>
Amp == <<"amp">>
None == ""

\* An empty scommand and a NULL one.
NewCommand == [args |-> <<>>, in |-> None, out |-> None]
NULL == [args |-> <<>>, in |-> "NULL", out |-> "NULL"]

IsArgument(t) == t[1] \in {"arg", "in", "out"}

\* The position after the arguments that start at i.
ArgumentsEnd(line, i) ==
    CHOOSE j \in i..(Len(line) + 1) :
        /\ \A k \in i..(j - 1) : IsArgument(line[k])
        /\ j <= Len(line) => ~IsArgument(line[j])

\* Mutant: a redirection of output is stored as one of input.
AddArgumentSwapped(cmd, t) ==
    CASE t[1] = "arg" -> [cmd EXCEPT !.args = Append(@, t[2])]
      [] OTHER -> [cmd EXCEPT !.in = t[2]]

\* scommand_push_back, scommand_set_redir_in and _out: the last one wins.
AddArgument(cmd, t) ==
    CASE t[1] = "arg" -> [cmd EXCEPT !.args = Append(@, t[2])]
      [] t[1] = "in"  -> [cmd EXCEPT !.in = t[2]]
      [] t[1] = "out" -> [cmd EXCEPT !.out = t[2]]

\* parse_scommand at position i; redirections alone are no command.
ParseCommand(line, i) ==
    LET cmd == FoldLeft(AddArgument, NewCommand,
                        SubSeq(line, i, ArgumentsEnd(line, i) - 1))
    IN IF cmd.args = <<>> THEN NULL ELSE cmd

At(line, i, t) == i <= Len(line) /\ line[i] = t

\* parse_pipeline.  turn[k] is the state of the loop after k turns: the
\* command just read, where it ends, whether a bar came before it, and the
\* commands pushed so far.
ParsePipeline(line) ==
    LET turn[k \in 0..(Len(line) + 1)] ==
          IF k = 0
          THEN [cmd |-> ParseCommand(line, 1), pos |-> ArgumentsEnd(line, 1),
                another |-> TRUE, cmds |-> <<>>]
          ELSE LET s == turn[k - 1]
                   bar == At(line, s.pos, Bar)
                   i == IF bar THEN s.pos + 1 ELSE s.pos
               IN IF s.cmd = NULL \/ ~s.another THEN s
                  ELSE [cmd |-> ParseCommand(line, i), pos |-> ArgumentsEnd(line, i),
                        another |-> bar, cmds |-> Append(s.cmds, s.cmd)]
        end == turn[Len(line) + 1]
    IN [cmds |-> end.cmds, wait |-> ~At(line, end.pos, Amp)]

\* scommand_to_string
CommandToString(cmd) ==
    [i \in DOMAIN cmd.args |-> <<"arg", cmd.args[i]>>]
        \o (IF cmd.out = None THEN <<>> ELSE <<<<"out", cmd.out>>>>)
        \o (IF cmd.in = None THEN <<>> ELSE <<<<"in", cmd.in>>>>)

\* pipeline_to_string
PipelineToString(p) ==
    FoldLeftDomain(LAMBDA s, i :
                       s \o (IF i = 1 THEN <<>> ELSE <<Bar>>) \o CommandToString(p.cmds[i]),
                   <<>>, p.cmds)
        \o (IF p.wait THEN <<>> ELSE <<Amp>>)
=============================================================================

CONSTANTS
    NINODES = 13
    NINODE = 6
    BSIZE = 4
    NDIRECT = 2
    NINDIRECT = 2
    PGSIZE = 8
    PTES = 8
    IMAGE = 3
    MAXARG = 9
    NPROC = 9
    NOFILE = 8
    NFILE = 9
    NPIPE = 8
    PIPESIZE = 2
    MAXWRITE = 4
    Programs <- ProgramOf
    Settle <- RunControl
SPECIFICATION ProgSpec
INVARIANTS ProgramsPass RefsExact LinksExact NothingLeaks PiecesDontMatter HeapPartition
CONSTANT Which <- AllMachines
PROPERTIES SchedulerIsFair WaiterReturns GameFinishes

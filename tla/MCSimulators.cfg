\* File system: three names for two places of the table, a disk of three
\* blocks of two bytes.  Allocator: two variables, five bytes, five places.
CONSTANTS
    Names = {f1, f2, f3}
    Bytes <- ByteSet
    Nul = "nul"
    BlockSize = 2
    TotalBlocks = 3
    MaxFiles = 2
    IntMax = 8
    Sizes <- SizeSet
    Offsets <- OffsetSet
    Data <- Texts
    Lengths <- LengthSet
    None = None
    Variables = {x, y}
    NoName = NoName
    Unset = Unset
    Dash = Dash
    MemorySize = 5
    MaxBlocks = 5
    Amounts = {0, 1, 2, 6}
SPECIFICATION SimSpec
INVARIANTS
    BlocksAccounted
    Partition
    OwnBytes
    OverrunNeedsMany
    HolesAreRuns
PROPERTIES
    ImplementsFileStore
    ReallocKeeps
    ImplementsHeap
SYMMETRY Same
\* EXIT ends the one program, a table written past its end the other.
CHECK_DEADLOCK FALSE

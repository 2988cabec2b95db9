SPECIFICATION PartsSpec
CONSTANTS
    Thread = {t1, t2}
    NoThread = null
    NFrames = 3
    Align = 2
    PageBits = 2
    Bios = 1
    Low = 4
    Mid = 20
    Top = 25
    Request = {1, 3, 4}
    Layout <- BootAreas
    ChunkWords = 6
    HeapWords = 18
    UserRequest = {1, 5}
    Datum = {4, 5}
    NoNode = null
    Node = {n1, n2, n3}
    First = first
    Second = second
    Struct = {s1, s2, s3}
    Task = task
    HASHMAP_SIZE = 2
    MaxTid = 5
    Keys <- TestKeys
    MaxDown = 3
    Size = 4
    Length = {2}
    Width = 2
    Height = 2
    Glyph = {"x"}
    Color = {"white", "red"}
    Boot = "white"
INVARIANTS HeapPartition HeapTiled ListsSpell LookupExact KeyGivesItsCharacter BufferIsQueue 
PROPERTIES ImplementsPool ReadsInOrder ImplementsScreen

SPECIFICATION ReceptionSpec
CONSTANTS
    Byte <- Bytes
    Crc8Check <- Crc8
    BufferLength = 4
    Packets <- ModulePackets
    Noise <- LineNoise
    Glitches = {0, 85}
    MaxPackets = 3
    MaxFaults = 2
    Devices = {d1, d2}
    NoDevice = none
    Seqs = 2
    Pieces <- ThreeTelegrams
    MaxRadioFaults = 2
INVARIANTS
    EntryState
    Genuine
    CostOfFault
    Faithful
    ExactlyOnce
CHECK_DEADLOCK FALSE

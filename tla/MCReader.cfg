SPECIFICATION ReaderSpec
CONSTANTS
 a = a
 b = b
 c = c
 s = s
 h = h
 g = g
 Devices = {a, b, c}
 Entities = {s, h, g}
 Source = s
 Unfit = {h}
 Partial = {3}
 Home <- MCHome
 Syncs = {"a1", "b1"}
 DeviceOf <- MCDeviceOf
 Batch = 2
 Page = 1
 MaxKeys = 3
 MaxTicks = 1
 MaxFaults = 1
 Paired = {a, b}
 Codes = {"k"}
 Asks = {q1, q2}
 q1 = q1
 q2 = q2
 Threads = {"t"}
 MaxActivity = 4
 Weight = 2
INVARIANTS OpenedIsConverged AckedIsWritten NothingSkipped QuietAgree AnswersFollow
CHECK_DEADLOCK FALSE
SYMMETRY MCSymmetry

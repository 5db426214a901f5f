\* Two senders fill the buffer twice over; Close may come at any time.
SPECIFICATION FairSpec
CONSTANTS
    Senders = {s1, s2}
    Exporters = {splunk, elastic}
    BatchSize = 2
    MayClose = TRUE
    MaxEvents = 4
INVARIANTS ExactlyOnce FullBufferSignalled
PROPERTIES DeliveredInOrder CloseCompletes

SPECIFICATION MCSpec
CONSTANTS
    Parts = {"sip", "ssh"}
    Scenarios <- Unreliable
    MaxRetransmit = 3
    Commands = {"ls"}
    Outputs <- TwoOutputs
    Passwords = {"right", "wrong"}
    Password = "right"
    MaxSessions = 2
    MaxTries = 2
INVARIANTS OutcomeAgreed OnlyTheUser SealedOnce
 
CHECK_DEADLOCK FALSE

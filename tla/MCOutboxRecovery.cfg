CONSTANTS
    Sources = {s1}
    Reminders = {}
    Invitations = {s1}
    Workers = {w1}
    Addresses = {a1, a2}
    Senders = {f1, f2}
    NoAddress = NoAddress
    NoEnvelope = NoEnvelope
    NoDelivery = NoDelivery
    MaxAttempts = 3
    MaxGenerations = 1
    MaxChanges = 1
    MaxCrashes = 2
    MaxEvents = 1
SPECIFICATION FairSpec
CHECK_DEADLOCK FALSE
PROPERTIES
    EventuallySettled

CONSTANTS
    Sources = {s1}
    Reminders = {s1}
    Invitations = {}
    Workers = {w1, w2}
    Addresses = {a1, a2}
    Senders = {f1, f2}
    NoAddress = NoAddress
    NoEnvelope = NoEnvelope
    NoDelivery = NoDelivery
    MaxAttempts = 2
    MaxGenerations = 2
    MaxChanges = 1
    MaxCrashes = 0
    MaxEvents = 2
SPECIFICATION Spec
CHECK_DEADLOCK FALSE
PROPERTIES
    DeliveredIsNotReprocessed

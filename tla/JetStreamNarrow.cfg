SPECIFICATION Spec
CONSTANTS
    old = old  new = new  other = other  m1 = m1  m2 = m2
    Replicas = {old, new, other}
    Subjects = {"a", "b", "c"}
    Subs <- MCSubs
    AllowNarrow = {}
    DeliverNew = {new}
    Durables <- MCDurables
    Messages = {m1}
    MaxStops = 2
    NoStream = "none"
CHECK_DEADLOCK FALSE
PROPERTIES
    NarrowsOnlyIfAllowed

\* Two topics of three messages each, batches of two, six messages.
CONSTANTS
    p1 = p1 p2 = p2 m1 = m1 m2 = m2 m3 = m3 m4 = m4 m5 = m5 m6 = m6
    Topics = {p1, p2}
    Messages = {m1, m2, m3, m4, m5, m6}
    MaxQueueSize = 3
    BatchSize = 2
    Expires = TRUE
SPECIFICATION QueueSpec
INVARIANT TopicsInOrder
SYMMETRY QueueSymmetry

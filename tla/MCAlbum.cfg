CONSTANTS
    m1 = m1
    m2 = m2
    m3 = m3
    m4 = m4
    n1 = n1
    n2 = n2
    g1 = g1
    g2 = g2
    Messages = {m1, m2, m3, m4, n1, n2}
    Albums = {g1, g2}
    AlbumOf <- MCAlbumOf
    MaxItems = 3
SPECIFICATION AlbumSpec
CHECK_DEADLOCK FALSE
INVARIANTS
    AlbumHandedOver

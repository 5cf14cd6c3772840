SPECIFICATION Spec
CONSTANTS
    Users = {u1, u2, u3}
    Creator = u1
    Roles = {"ADMIN", "MODERATOR", "GUEST"}
    PrimaryRole <- AllGuests
    Codes = {c1, c2}
    Mixes <- Mixture
    Workers = {w1, w2}
    FirstCode = FirstCode
    NoCode = NoCode
SYMMETRY Symmetry
INVARIANTS BannedIsOut RoomFollowsGroup ShownIsLive CountIsMembers
CHECK_DEADLOCK FALSE

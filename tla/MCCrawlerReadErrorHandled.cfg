SPECIFICATION Spec
CONSTANTS
    u1 = u1
    u2 = u2
    u3 = u3
    u4 = u4
    Url = {u1, u2, u3, u4}
    FirstUrl = u1
    NoLink = NoLink
    NULL = NULL
    Page <- MCPage
INVARIANT
    ReadErrorHandled

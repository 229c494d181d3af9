--------------------------- MODULE MCRefreshTokens ---------------------------
(* Small instances of RefreshTokens for TLC. *)
EXTENDS RefreshTokens, TLC

CONSTANTS c1, c2, c3, left, right

\* A call and a logout of one page, and a login in another tab.  Each of them
\* may be answered 401 and refresh.
MCKind == c1 :> "api" @@ c2 :> "logout" @@ c3 :> "login"
MCTab == c1 :> left @@ c2 :> left @@ c3 :> right

\* What follows when browser and server have been separated is explored for the
\* logout and the login only.
TwoOnceSeparated == calm \/ call[c1] = "idle"
=============================================================================

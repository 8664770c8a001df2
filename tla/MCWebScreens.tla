-------------------------- MODULE MCWebScreens --------------------------
(* Small instances of the screens for TLC *)
EXTENDS WebScreens, TLC

CONSTANTS a, b, k1, k2, k3, o1, o2, u1, u2, u3

MCText == "file" :> (a :> "y" @@ b :> "x")
MCVaultCount == o1 :> 2 @@ o2 :> 1
MCFirstRoles ==
    o1 :> (u1 :> "owner" @@ u2 :> "admin" @@ u3 :> "viewer") @@
    o2 :> (u1 :> "admin" @@ u2 :> "owner" @@ u3 :> "none")
MCFirstAccess == u1 :> "admin" @@ u2 :> "owner" @@ u3 :> "viewer"
MCMaxEvents == "all" :> 3 @@ "some" :> 2
MCPlaceOf == k1 :> o1 @@ k2 :> o2 @@ k3 :> o1
MCTermsOf == k1 :> {"a"} @@ k2 :> {"a", "b"} @@ k3 :> {"b"}
=============================================================================

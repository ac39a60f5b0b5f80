-------------------------- MODULE MC_LegacyBackend --------------------------
EXTENDS LegacyBackend, TLC

CONSTANTS adm, bob, eve, p0, p1

MCSeedRole == (adm :> "admin" @@ bob :> "editor")
In(op, user, p) == [op |-> op, user |-> user, project |-> p]
For(op, user, p, target, role) ==
    [op |-> op, user |-> user, project |-> p, target |-> target, role |-> role]
By(op, user) == [op |-> op, user |-> user]

\* adm administers p0 and bob edits it; eve is unknown until she logs in or is
\* granted access.
MCInputs ==
    {[op |-> "login", target |-> eve],
     For("create", adm, "none", adm, "admin"),
     For("grant", adm, p0, bob, "viewer"),
     For("revoke", adm, p0, bob, "viewer"),
     In("delete", adm, p0),
     [op |-> "save", user |-> adm, project |-> p0, empty |-> FALSE],
     [op |-> "save", user |-> bob, project |-> p0, empty |-> TRUE],
     In("mark", bob, p0), [op |-> "update", user |-> bob, project |-> p0, status |-> "completed"],
     In("detail", adm, p0),
     By("list", bob),
     In("upload", bob, p0), In("store", adm, p0),
     By("fetch", bob), By("link", bob),
     By("remove", adm)}
Symm == Permutations(Reqs)
=============================================================================

---------------------------- MODULE MCOrgPolicy ----------------------------
(* Two users, one of them the site's admin, two concurrent requests.  The    *)
(* organization and the repository share no state, so TLC follows behaviours *)
(* about one or the other.                                                   *)
EXTENDS OrgPolicy, TLC

CONSTANTS u1, u2, r1, r2

Symmetry == Permutations({r1, r2})

AboutRepo == /\ \A u \in Users : role[u] = "none" /\ age[u].modifier = Oldest
             /\ \A r \in Requests : req[r].pc \in {"idle", "denied"} \/ req[r].op = "read"
AboutOrg  == /\ \A u \in Users : u \notin access /\ age[u].reader = Oldest
             /\ \A r \in Requests : req[r].op # "read"

OneSubject == AboutRepo \/ AboutOrg
=============================================================================

------------------------------ MODULE MCHandler ------------------------------
(***************************************************************************)
(* Instances of Handler for TLC.                                           *)
(***************************************************************************)
EXTENDS Handler, TLC

CONSTANTS r1, r2, r3, r4, r5, r6, r7, r8

MCNames == {"default", "blog"}
MCAgents == {"firefox", "safari"}
MCAddresses == {"home", "work"}

Request(root, user_agent, source_ip, name) ==
    [root |-> root, context |-> TRUE,
     user_agent |-> user_agent, source_ip |-> source_ip, name |-> name]

\* A visitor of two counters who visits the second one twice, another visitor of the
\* second, and requests that are refused each for its own reason.
MCEvent ==
    (r1 :> Request(TRUE, "firefox", "home", Missing))
 @@ (r2 :> Request(TRUE, "firefox", "home", "blog"))
 @@ (r3 :> Request(TRUE, "safari", "work", "blog"))
 @@ (r4 :> Request(TRUE, "firefox", "home", "blog"))
 @@ (r5 :> Request(FALSE, "safari", "home", "blog"))
 @@ (r6 :> Request(TRUE, Bot, Missing, "blog"))
 @@ (r7 :> Request(TRUE, "safari", Missing, "blog"))
 @@ (r8 :> [Request(TRUE, "safari", "work", "blog") EXCEPT !.context = FALSE])

MCTagOf ==
    [p \in (MCAddresses \cup {Missing}) \X (MCAgents \cup {Missing, Bot}) |->
        IF p[2] = "safari" THEN 7 ELSE 1]

\* The two visits of one visitor to one counter are interchangeable.
MCSymmetry == Permutations({r2, r4})

\* Not set, or set as the deployment may.
MCSettings == {{}, {"default", "blog"}}
=============================================================================

--------------------------- MODULE PasskeyApproval ---------------------------
(***************************************************************************)
(* The passkey approval hook: a passkey is looked up in a Redis set; if it  *)
(* is not there (or Redis fails) the site is asked, and what it approves is *)
(* added to the set, which expires as a whole.  SADD and EXPIRE are two     *)
(* commands.  Each command and each call of the site may fail.  The site    *)
(* may also keep the set itself, with SADD, SREM and RENAME.                *)
(***************************************************************************)
EXTENDS PreHooks

CONSTANTS
    CacheTTL,        \* Config.CacheTTLSeconds, in ticks of the clock
    Never            \* the set has no expiry

ASSUME ApprovalAssumption ==
    /\ CacheTTL \in Nat
    /\ Never \notin Nat

VARIABLES
    site,            \* the passkeys that the site approves of
    everApproved,    \* those that it has ever approved of
    approved,        \* the set pt:passkeys
    approvedTTL,     \* ticks until it expires, 0 if it does not exist
    persists         \* the set was left without an expiry: the EXPIRE of
                     \* the hook has failed, or the site made the set

approvalVars == <<site, everApproved, approved, approvedTTL, persists>>

ApprovalOK ==
    /\ site \subseteq Passkey
    /\ everApproved \subseteq Passkey
    /\ approved \subseteq Passkey
    /\ approvedTTL \in 0..CacheTTL \cup {Never}
    /\ persists \in BOOLEAN

ApprovalInit ==
    /\ site = {}
    /\ everApproved = {}
    /\ approved = {}
    /\ approvedTTL = 0
    /\ persists = FALSE

Approves(r) == Calls(r, "passkey approval")

\* The request has no passkey, or one that cannot be decrypted.  One that
\* decrypts to the empty passkey goes on.
ApprovalMissing(r) ==
    /\ Approves(r)
    /\ PasskeyOf(r) = NoPasskey
    /\ Refuse(r)
    /\ UNCHANGED approvalVars

\* Mutant of ApprovalLookup: a hit renews the expiry.
ApprovalLookupRenews(r) ==
    /\ Approves(r)
    /\ PasskeyOf(r) # NoPasskey
    /\ IF PasskeyOf(r) \in approved
       THEN Return(r) /\ approvedTTL' = CacheTTL
       ELSE Goto(r, "ask") /\ UNCHANGED approvedTTL
    /\ UNCHANGED <<site, everApproved, approved, persists>>

\* SISMEMBER: a hit lets the announce pass, a miss or an error asks the site.
ApprovalLookup(r) ==
    /\ Approves(r)
    /\ PasskeyOf(r) # NoPasskey
    /\ \/ PasskeyOf(r) \in approved /\ Return(r)
       \/ Goto(r, "ask")
    /\ UNCHANGED approvalVars

\* Mutant of ApprovalAsk: an answer other than 2xx is not looked at.
ApprovalAskLenient(r) ==
    /\ At(r, "ask")
    /\ Goto(r, "add")
    /\ UNCHANGED approvalVars

\* The site approves of the passkey; or it does not, or does not answer.
ApprovalAsk(r) ==
    /\ At(r, "ask")
    /\ \/ /\ PasskeyOf(r) \in site
          /\ IF CacheTTL > 0 THEN Goto(r, "add") ELSE Return(r)
       \/ Refuse(r)
    /\ UNCHANGED approvalVars

\* Mutant of ApprovalAdd: the hook returns without sending EXPIRE.
ApprovalAddOnly(r) ==
    /\ At(r, "add")
    /\ \/ /\ approved' = approved \cup {PasskeyOf(r)}
          /\ approvedTTL' = IF approved = {} THEN Never ELSE approvedTTL
       \/ UNCHANGED <<approved, approvedTTL>>
    /\ Return(r)
    /\ UNCHANGED <<site, everApproved, persists>>

\* SADD, whose error is ignored.  A set that did not exist has no expiry.
ApprovalAdd(r) ==
    /\ At(r, "add")
    /\ \/ /\ approved' = approved \cup {PasskeyOf(r)}
          /\ approvedTTL' = IF approved = {} THEN Never ELSE approvedTTL
       \/ UNCHANGED <<approved, approvedTTL>>
    /\ Goto(r, "expire")
    /\ UNCHANGED <<site, everApproved, persists>>

\* EXPIRE, whose error is ignored too.
ApprovalExpire(r) ==
    /\ At(r, "expire")
    /\ \/ /\ approvedTTL' = IF approved = {} THEN 0 ELSE CacheTTL
          /\ persists' = FALSE
       \/ /\ persists' = (persists \/ approvedTTL = Never)
          /\ UNCHANGED approvedTTL
    /\ Return(r)
    /\ UNCHANGED <<site, everApproved, approved>>

ApprovalStep(r) ==
    \/ ApprovalMissing(r)
    \/ ApprovalLookup(r)
    \/ ApprovalAsk(r)
    \/ ApprovalAdd(r)
    \/ ApprovalExpire(r)

\* Redis counts the expiry down and deletes the set.
ApprovalTick ==
    /\ approvedTTL' = IF approvedTTL \in {0, Never} THEN approvedTTL ELSE approvedTTL - 1
    /\ approved' = IF approvedTTL = 1 THEN {} ELSE approved
    /\ UNCHANGED <<site, everApproved, persists>>

\* The passkeys that a site with this hook knows of.
Known == {k \in Passkey : Uses("passkey approval") /\ \E p \in setup.peers : User[p] = k}

\* The site approves of a passkey, or withdraws its approval.
Approve(k) ==
    /\ k \in Known
    /\ site' = site \cup {k}
    /\ everApproved' = everApproved \cup {k}
    /\ UNCHANGED <<approved, approvedTTL, persists, setup, handler>>

Withdraw(k) ==
    /\ k \in Known
    /\ site' = site \ {k}
    /\ UNCHANGED <<everApproved, approved, approvedTTL, persists, setup, handler>>

\* The site adds a passkey to the set, takes one out, or puts another set in
\* its place; one that it makes has no expiry.
SiteAdds(k) ==
    /\ k \in Known
    /\ site' = site \cup {k}
    /\ everApproved' = everApproved \cup {k}
    /\ approved' = approved \cup {k}
    /\ approvedTTL' = IF approved = {} THEN Never ELSE approvedTTL
    /\ persists' = (persists \/ approved = {})
    /\ UNCHANGED <<setup, handler>>

SiteRemoves(k) ==
    /\ k \in Known
    /\ site' = site \ {k}
    /\ approved' = approved \ {k}
    /\ approvedTTL' = IF approved \subseteq {k} THEN 0 ELSE approvedTTL
    /\ persists' = (persists /\ ~(approved \subseteq {k}))
    /\ UNCHANGED <<everApproved, setup, handler>>

SiteRenames(K) ==
    /\ K \subseteq Known
    /\ K # {}
    /\ site' = K
    /\ everApproved' = everApproved \cup K
    /\ approved' = K
    /\ approvedTTL' = Never
    /\ persists' = TRUE
    /\ UNCHANGED <<setup, handler>>

-----------------------------------------------------------------------------

\* The set gets its expiry from the last passkey that was added to it, for
\* all of them.  Once no new ones are approved (in a time when new ones are,
\* the expiry may be put off for ever) a passkey that the site has withdrawn
\* leaves the set in the end, unless the site approves of it again or has the
\* set kept without an expiry, however often it and the others are used: only
\* an answer of the site renews the expiry, and a passkey in the set is not
\* asked about (passkeyapproval.HandleAnnounce).
WithdrawnForgotten ==
    \A k \in Passkey :
       \/ []<>(\E r \in Handler : At(r, "expire"))
       \/ k \in everApproved \ site ~> (k \notin approved \/ k \in site \/ persists)

=============================================================================

----------------------------- MODULE OidcProvider -----------------------------
(***************************************************************************)
(* Sign-in with an OpenID Connect issuer (server/oidc.py).  Request        *)
(* threads share one provider and its cache of the issuer's keys; nothing  *)
(* locks it, so fetches overlap and the slowest one is stored last.  The   *)
(* issuer publishes and withdraws keys, and may not answer.         *)
(***************************************************************************)
EXTENDS Naturals

CONSTANTS Threads,
          Kids,        \* names of signing keys
          Roles,       \* values of the role claim
          Tokens,      \* what tokens say, see Claims
          RoleMap,     \* the configured part of them, with the role each gives
          Lifetime,    \* JWKS_TTL_SECONDS, in ticks
          MaxClock,    \* bound: ticks of the clock
          None

Rank == [viewer |-> 1, member |-> 2, admin |-> 3, owner |-> 4]

\* What a token says once its form, algorithm and segments are accepted.
Claims == [issuer : BOOLEAN, audience : BOOLEAN, ends : 0..MaxClock,
           roles : SUBSET Roles]

ASSUME OidcAssumption ==
  /\ Lifetime \in Nat \ {0} /\ MaxClock \in Nat
  /\ DOMAIN RoleMap \subseteq Roles /\ Tokens \subseteq Claims
  /\ \A r \in DOMAIN RoleMap : RoleMap[r] \in DOMAIN Rank
  /\ None \notin Nat /\ None \notin Kids

VARIABLES
  clock,
  published,   \* the keys the issuer publishes now
  withdrawn,   \* when it last withdrew each key
  cache,       \* the provider's keys, and the time they are stamped with
  call         \* what each thread's verification does next

oidcVars == <<clock, published, withdrawn, cache, call>>

Idle == [pc |-> "idle"]

\* `steady`: the key was published from the start, and every fetch was answered;
\* `late`: it was withdrawn Lifetime or more before the start.
Call(kid, claims, steady, late) ==
  [pc |-> "keys", kid |-> kid, claims |-> claims, now |-> None, keys |-> {},
   forced |-> FALSE, steady |-> steady, late |-> late]

OidcInit == /\ clock = 0
            /\ published \in (SUBSET Kids) \ {{}}
            /\ withdrawn = [k \in Kids |-> None]
            /\ cache = [keys |-> {}, at |-> None]
            /\ call = [t \in Threads |-> Idle]

-------------------------------------------------------------------------------
(* The issuer and time. *)

Tick == /\ clock < MaxClock /\ clock' = clock + 1
        /\ UNCHANGED <<published, withdrawn, cache, call>>

Publish(k) == /\ k \notin published /\ published' = published \cup {k}
              /\ withdrawn' = [withdrawn EXCEPT ![k] = None]
              /\ call' = [t \in Threads |-> IF call[t].pc # "idle" /\ call[t].kid = k
                                           THEN [call[t] EXCEPT !.late = FALSE] ELSE call[t]]
              /\ UNCHANGED <<clock, cache>>

Withdraw(k) == /\ k \in published /\ published' = published \ {k}
               /\ withdrawn' = [withdrawn EXCEPT ![k] = clock]
               /\ call' = [t \in Threads |-> IF call[t].pc # "idle" /\ call[t].kid = k
                                            THEN [call[t] EXCEPT !.steady = FALSE] ELSE call[t]]
               /\ UNCHANGED <<clock, cache>>

-------------------------------------------------------------------------------
(* verify, one step per access to what threads share. *)

Set(f, x, v) == [f EXCEPT ![x] = v]

\* A token arrives under a key, with an accepted algorithm.
Begin(t, kid, claims) ==
  /\ call[t].pc = "idle"
  /\ call' = Set(call, t, Call(kid, claims, kid \in published,
                               withdrawn[kid] # None /\ clock >= withdrawn[kid] + Lifetime))
  /\ UNCHANGED <<clock, published, withdrawn, cache>>

Fresh(now) == cache.at # None /\ now - cache.at < Lifetime

\* jwks() reads the clock and then the cache; force goes past the cache.
Lookup(t) ==
  /\ call[t].pc = "keys"
  /\ call' = Set(call, t, IF ~call[t].forced /\ Fresh(clock)
                          THEN [call[t] EXCEPT !.pc = "check", !.keys = cache.keys]
                          ELSE [call[t] EXCEPT !.pc = "fetch", !.now = clock])
  /\ UNCHANGED <<clock, published, withdrawn, cache>>

\* What the thread held is gone with its answer.
Answer(t, verdict) ==
  call' = Set(call, t, [call[t] EXCEPT !.pc = verdict, !.now = None, !.keys = {}])

\* The issuer's answer: no answer, or no key in it, refuses the token.
Fetch(t) ==
  /\ call[t].pc = "fetch"
  /\ \/ /\ published # {}
        /\ call' = Set(call, t, [call[t] EXCEPT !.pc = "store", !.keys = published])
     \/ published = {} /\ Answer(t, "refused")
     \/ /\ call' = Set(call, t, [call[t] EXCEPT !.pc = "refused", !.now = None,
                                               !.steady = FALSE])
  /\ UNCHANGED <<clock, published, withdrawn, cache>>

\* Mutant: the keys are stamped with the time they are stored.
Store_Late(t) ==
  /\ call[t].pc = "store"
  /\ cache' = [keys |-> call[t].keys, at |-> clock]
  /\ call' = Set(call, t, [call[t] EXCEPT !.pc = "check", !.now = None])
  /\ UNCHANGED <<clock, published, withdrawn>>

\* Whatever another thread stored meanwhile is overwritten.
Store(t) ==
  /\ call[t].pc = "store"
  /\ cache' = [keys |-> call[t].keys, at |-> call[t].now]
  /\ call' = Set(call, t, [call[t] EXCEPT !.pc = "check", !.now = None])
  /\ UNCHANGED <<clock, published, withdrawn>>

\* The roles the claim maps to; the highest of them is the caller's.
Mapped(c) == {RoleMap[r] : r \in c.roles \cap DOMAIN RoleMap}
RoleFor(c) == CHOOSE r \in Mapped(c) : \A q \in Mapped(c) : Rank[q] <= Rank[r]

ClaimsOk(c) == c.issuer /\ c.audience /\ clock <= c.ends /\ Mapped(c) # {}

\* Mutant: a key that is not in the cached set is unknown.
Check_NoRetry(t) ==
  /\ call[t].pc = "check"
  /\ \/ /\ call[t].kid \in call[t].keys /\ ClaimsOk(call[t].claims)
        /\ Answer(t, "accepted")
     \/ ~(call[t].kid \in call[t].keys /\ ClaimsOk(call[t].claims)) /\ Answer(t, "refused")
  /\ UNCHANGED <<clock, published, withdrawn, cache>>

\* An unknown key is looked for once more with a forced fetch; a known one
\* has signed the token, and the claims decide.
Check(t) ==
  LET known == call[t].kid \in call[t].keys
  IN /\ call[t].pc = "check"
     /\ \/ /\ known /\ ClaimsOk(call[t].claims)
           /\ Answer(t, "accepted")
        \/ /\ ~known /\ ~call[t].forced
           /\ call' = Set(call, t, [call[t] EXCEPT !.pc = "keys", !.forced = TRUE, !.keys = {}])
        \/ /\ IF known THEN ~ClaimsOk(call[t].claims) ELSE call[t].forced
           /\ Answer(t, "refused")
     /\ UNCHANGED <<clock, published, withdrawn, cache>>

Answered(t) == call[t].pc \in {"accepted", "refused"}

\* The answer is used, and the thread is free again.
Leave(t) == /\ Answered(t) /\ call' = Set(call, t, Idle)
            /\ UNCHANGED <<clock, published, withdrawn, cache>>

World == Tick \/ \E k \in Kids : Publish(k) \/ Withdraw(k)

Verify(t) == Lookup(t) \/ Fetch(t) \/ Store(t) \/ Check(t)

OidcNext == \/ World
            \/ \E t \in Threads : Verify(t) \/ Leave(t)
            \/ \E t \in Threads, k \in Kids, c \in Tokens : Begin(t, k, c)

OidcSpec == OidcInit /\ [][OidcNext]_oidcVars

-------------------------------------------------------------------------------
\* A key that is withdrawn at the issuer stops working: a verification that
\* begins Lifetime or more after the withdrawal never accepts a token under
\* that key, however fetches of several threads overlap and in whatever order
\* their answers are stored.
RotatedOutIsRefused == \A t \in Threads : call[t].pc = "accepted" => ~call[t].late

\* A rotation is no outage: a token in order under a key that is published
\* throughout its verification is accepted if the issuer answers, whatever the
\* cache holds and whatever other threads do to it.
RotationIsNoOutage ==
  \A t \in Threads : call[t].pc = "refused" /\ call[t].steady => ~ClaimsOk(call[t].claims)
===============================================================================

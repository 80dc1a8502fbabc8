----------------------------- MODULE AgentAuth -----------------------------
(***************************************************************************)
(* Replay protection of agent requests: AuthenticateDistributedAgent       *)
(* (internal/store/distributed_agents.go, postgres_distributed.go), called *)
(* by every agent endpoint of internal/api/server.go, and the signing side *)
(* in internal/engine/distributed_client.go.                               *)
(*                                                                         *)
(* An agent signs each request once, with a fresh random nonce and its own *)
(* clock's time, which may be off.  The network may deliver a signed       *)
(* request late and more than once, to any coordinator process: a handler  *)
(* first checks the timestamp, and some time later, after the database     *)
(* lookups, consumes the nonce in a transaction that also deletes the      *)
(* nonces older than Retention.  Signatures are taken to be unforgeable.   *)
(***************************************************************************)
EXTENDS Integers

CONSTANTS Nonces,     \* <<agent_id, nonce>> pairs ever drawn
          Handlers,   \* concurrently served requests
          Window,     \* how far a timestamp may be off (two minutes)
          Retention,  \* how long a used nonce is kept (five minutes)
          MaxDelay,   \* longest time from the check to the transaction
          MaxTime     \* bound: the clock

ASSUME AuthAssumption == /\ Window \in Nat /\ Retention \in Nat
                         /\ MaxDelay \in Nat /\ MaxTime \in Nat

\* What the constants two and five minutes leave for the delay.
ASSUME RetentionAssumption == 2 * Window + MaxDelay <= Retention

VARIABLES
    clock,     \* the coordinators' time
    signed,    \* nonce -> timestamp it was signed with, -1 if not yet drawn
    used,      \* distributed_agent_nonces: rows [nonce, at]
    pc, req, since,  \* each handler: where it is, its nonce, when it checked
    accepted   \* history: how often each request was let through

vars == <<clock, signed, used, pc, req, since, accepted>>

Init ==
    /\ clock = 0
    /\ signed = [x \in Nonces |-> -1]
    /\ used = {}
    /\ pc = [h \in Handlers |-> "idle"]
    /\ req \in [Handlers -> Nonces]
    /\ since = [h \in Handlers |-> 0]
    /\ accepted = [x \in Nonces |-> 0]

\* post: sign a request with a fresh nonce; the agent's clock is its own.
Sign(x) ==
    /\ signed[x] = -1
    /\ \E t \in 0..MaxTime : signed' = [signed EXCEPT ![x] = t]
    /\ UNCHANGED <<clock, used, pc, req, since, accepted>>

\* A delivery passes the timestamp check (one outside the window is refused,
\* which changes nothing).
CheckTimestamp(h, x) ==
    /\ pc[h] = "idle"
    /\ signed[x] >= 0
    /\ clock - signed[x] <= Window
    /\ signed[x] - clock <= Window
    /\ pc' = [pc EXCEPT ![h] = "consume"]
    /\ req' = [req EXCEPT ![h] = x]
    /\ since' = [since EXCEPT ![h] = clock]
    /\ UNCHANGED <<clock, signed, used, accepted>>

\* Rows the transaction keeps: DELETE ... WHERE used_at < now - Retention.
KeptWindow == {u \in used : u.at >= clock - Window}
Kept == {u \in used : u.at >= clock - Retention}

\* The primary key refuses the handler's nonce.
Duplicate(h)      == \E u \in Kept : u.nonce = req[h]

\* The transaction: prune, then insert; a duplicate nonce rolls both back.
ConsumeNonce(h) ==
    /\ pc[h] = "consume"
    /\ pc' = [pc EXCEPT ![h] = "idle"]
    /\ IF Duplicate(h)
       THEN UNCHANGED <<used, accepted>>
       ELSE /\ used' = Kept \cup {[nonce |-> req[h], at |-> clock]}
            /\ accepted' = [accepted EXCEPT ![req[h]] = @ + 1]
    /\ UNCHANGED <<clock, signed, req, since>>

\* Time passes, but a handler is done within MaxDelay of its check.
Tick ==
    /\ clock < MaxTime
    /\ \A h \in Handlers : pc[h] = "consume" => clock < since[h] + MaxDelay
    /\ clock' = clock + 1
    /\ UNCHANGED <<signed, used, pc, req, since, accepted>>

\* The clock bound is reached.
AtEnd == clock = MaxTime /\ UNCHANGED vars

Next == \/ \E x \in Nonces : Sign(x) \/ \E h \in Handlers : CheckTimestamp(h, x)
        \/ \E h \in Handlers : ConsumeNonce(h)
        \/ Tick \/ AtEnd

Spec == Init /\ [][Next]_vars

-----------------------------------------------------------------------------
\* Every variable has its type.
TypeOK ==
    /\ clock \in 0..MaxTime
    /\ signed \in [Nonces -> -1..MaxTime]
    /\ used \subseteq [nonce : Nonces, at : 0..MaxTime]
    /\ pc \in [Handlers -> {"idle", "consume"}]
    /\ req \in [Handlers -> Nonces]
    /\ since \in [Handlers -> 0..MaxTime]
    /\ accepted \in [Nonces -> Nat]

\* A signed agent request is let through at most once, however often, how
\* late and to how many handlers at a time it is delivered, although used
\* nonces are forgotten.
NoReplay == \A x \in Nonces : accepted[x] <= 1

\* A handler that is about to consume holds a request still in its window
\* and delay.
HandlerInTime ==
    \A h \in Handlers : pc[h] = "consume" =>
        /\ signed[req[h]] >= 0
        /\ since[h] <= clock
        /\ clock <= since[h] + MaxDelay
        /\ since[h] - signed[req[h]] <= Window
        /\ signed[req[h]] - since[h] <= Window

\* A used nonce is remembered until no copy of its request can pass.
Remembered ==
    \A x \in Nonces : accepted[x] > 0 =>
        /\ signed[x] >= 0
        /\ \/ clock > signed[x] + Window + MaxDelay
           \/ \E u \in used : u.nonce = x /\ u.at >= signed[x] - Window

\* The inductive strengthening of NoReplay.
ReplayInv == TypeOK /\ HandlerInTime /\ Remembered /\ NoReplay
=============================================================================

-------------------------- MODULE ApiServerProofs --------------------------
(***************************************************************************)
(* Proofs about the API server: what requests may change, what sessions    *)
(* say of their users, what a subscriber sees of the scans, and which      *)
(* configurations the scans run with.  Each concern has an inductive       *)
(* invariant of its own over the variables it depends on; all rest on the  *)
(* types (TypeInv).                                                        *)
(***************************************************************************)
EXTENDS ApiServer, SequenceTheorems, TLAPS

\* Only pause and resume belong to no dispatch.
EventRow ==
  {e \in [run: Nat, scan: ScanId,
          type: {"scan.dispatched", "engine.started", "scan.completed", "scan.failed", "scan.control"}] :
     e.run = 0 => e.type = "scan.control"}

ChannelRow == [open: BOOLEAN, closed: BOOLEAN, buf: Seq(EventRow), got: Seq(EventRow)]

\* A scan of the list of scans, whatever its configuration is; one of the command
\* line is never seen before its engine has started.
RunRow(r) ==
  /\ r = Run(r.id, r.cfg, r.file, r.from, r.st)
  /\ r.id \in ScanId
  /\ r.from \in {"command", "server"}
  /\ r.st \in {"launched", "started", "running", "ended"}
  /\ r.from = "command" => r.st \in {"running", "ended"}

RequestsOK == req \in [Slot -> RequestRow]

CountersOK == edits \in 0..MaxEdits /\ served \in 0..MaxRequests

TokensOK == tokens \in [Token -> Role \cup {"none"}]

RecordsOK ==
  /\ effects \subseteq [kind: Kind, role: Role \cup {"none"}]
  /\ audit \subseteq [kind: Kind, role: Role \cup {"none"}, status: {"ok", "rejected"}]

ChannelsOK == chan \in [Slot -> ChannelRow] /\ \A c \in Slot : Len(chan[c].buf) <= BufferCap

RunsOK ==
  /\ \E S : runs \in Seq(S)
  /\ Len(runs) <= MaxRuns
  /\ \A n \in DOMAIN runs : RunRow(runs[n])

IdentitiesOK == orgs \subseteq OrgId /\ users \in Seq(User) /\ sessions \in Seq(Session)

UserCopy == [id: Nat \ {0}, org: OrgId, role: Role]

\* A response has a status, which the audit entry will say; between the two locks
\* of a login there is a user to make a session for.
PhaseOK(r) ==
  /\ r.st = "respond" => r.status \in {"ok", "rejected"}
  /\ r.st = "login" => r.user \in UserCopy

PhasesOK == \A c \in Slot : PhaseOK(req[c])

TypeInv ==
  /\ RequestsOK
  /\ CountersOK
  /\ TokensOK
  /\ RecordsOK
  /\ ChannelsOK
  /\ RunsOK
  /\ IdentitiesOK
  /\ PhasesOK

----------------------------------------------------------------------------
(***************************************************************************)
(* Rows of the tables.                                                     *)
(***************************************************************************)

\* A request after its handler, and one between the two locks of a login.
Responded(r, status) ==
  [st |-> "respond", kind |-> r.kind, method |-> r.method, role |-> r.role, status |-> status, user |-> r.user]

LoggingIn(r, user) ==
  [st |-> "login", kind |-> r.kind, method |-> r.method, role |-> r.role, status |-> r.status, user |-> user]

Leaving(r) ==
  [st |-> "leaving", kind |-> r.kind, method |-> r.method, role |-> r.role, status |-> r.status, user |-> r.user]

\* What Goto does to a row, for each of its uses.
LEMMA GotoRow ==
  ASSUME RequestsOK, NEW c \in Slot, NEW st
  PROVE  Goto(c, st) = [req EXCEPT ![c] = [st |-> st, kind |-> req[c].kind, method |-> req[c].method,
                                           role |-> req[c].role, status |-> req[c].status, user |-> req[c].user]]
<1>1. [req[c] EXCEPT !.st = st] = [st |-> st, kind |-> req[c].kind, method |-> req[c].method,
                                   role |-> req[c].role, status |-> req[c].status, user |-> req[c].user]
  <2>1. req[c] \in RequestRow
    BY DEF RequestsOK
  <2> QED BY <2>1 DEF RequestRow
<1> QED BY <1>1 DEF Goto

LEMMA TwoUpdates ==
  ASSUME NEW D, NEW f, DOMAIN f = D, NEW p \in D, NEW u, NEW g, g = [f EXCEPT ![p] = u]
  PROVE  /\ g[p] = u /\ DOMAIN g = D
         /\ \A w : [g EXCEPT ![p] = w] = [f EXCEPT ![p] = w]
OBVIOUS

\* A handler's end changes its own row, to a response.
LEMMA RespondRow ==
  ASSUME RequestsOK, NEW c \in Slot, NEW status, NEW changed, Respond(c, status, changed)
  PROVE  req' = [req EXCEPT ![c] = Responded(req[c], status)]
<1> DEFINE u == [st |-> "respond", kind |-> req[c].kind, method |-> req[c].method,
                 role |-> req[c].role, status |-> req[c].status, user |-> req[c].user]
<1>1. Goto(c, "respond") = [req EXCEPT ![c] = u]
  BY GotoRow
<1>2. Goto(c, "respond")[c] = u /\ \A w : [Goto(c, "respond") EXCEPT ![c] = w] = [req EXCEPT ![c] = w]
  <2> HIDE DEF u
  <2> QED BY <1>1, TwoUpdates DEF RequestsOK
<1>3. req' = [Goto(c, "respond") EXCEPT ![c] = [Goto(c, "respond")[c] EXCEPT !.status = status]]
  BY DEF Respond
<1>4. [u EXCEPT !.status = status] = Responded(req[c], status)
  BY DEF Responded
<1> QED BY <1>2, <1>3, <1>4

\* The first lock of a login changes its row, to one that carries the user.
LEMMA LoginRow ==
  ASSUME RequestsOK, NEW c \in Slot, NEW user, req' = [Goto(c, "login") EXCEPT ![c].user = user]
  PROVE  req' = [req EXCEPT ![c] = LoggingIn(req[c], user)]
<1> DEFINE u == [st |-> "login", kind |-> req[c].kind, method |-> req[c].method,
                 role |-> req[c].role, status |-> req[c].status, user |-> req[c].user]
<1>1. Goto(c, "login") = [req EXCEPT ![c] = u]
  BY GotoRow
<1>2. Goto(c, "login")[c] = u /\ \A w : [Goto(c, "login") EXCEPT ![c] = w] = [req EXCEPT ![c] = w]
  <2> HIDE DEF u
  <2> QED BY <1>1, TwoUpdates DEF RequestsOK
<1>3. req' = [Goto(c, "login") EXCEPT ![c] = [Goto(c, "login")[c] EXCEPT !.user = user]]
  OBVIOUS
<1>4. [u EXCEPT !.user = user] = LoggingIn(req[c], user)
  BY DEF LoggingIn
<1> QED BY <1>2, <1>3, <1>4

\* The rows that actions write are rows of the table.
LEMMA RowsTyped ==
  /\ \A st \in {"idle", "authenticated", "stream"}, kind \in Kind, method \in Method, role \in Role \cup {"none"} :
       Request(st, kind, method, role) \in RequestRow
  /\ Idle \in RequestRow
  /\ \A r \in RequestRow :
       /\ \A status \in {"ok", "rejected"} : Responded(r, status) \in RequestRow
       /\ \A user \in UserCopy : LoggingIn(r, user) \in RequestRow
       /\ Leaving(r) \in RequestRow
<1>1. "run" \in Kind /\ "GET" \in Method
  BY DEF Kind, ChangesOn, Method
<1> QED BY <1>1 DEF Request, Idle, RequestRow, Responded, LoggingIn, Leaving, UserCopy

\* Writing one row keeps the others.
LEMMA RowWritten ==
  ASSUME RequestsOK, NEW c \in Slot, NEW r \in RequestRow, req' = [req EXCEPT ![c] = r]
  PROVE  /\ RequestsOK'
         /\ req'[c] = r
         /\ \A d \in Slot \ {c} : req'[d] = req[d]
BY DEF RequestsOK

RunStates == {"launched", "started", "running", "ended"}

\* A scan is added at the end of the list.
LEMMA RunAdded ==
  ASSUME RunsOK, Len(runs) < MaxRuns, NEW id \in ScanId, NEW config, NEW f,
         NEW from \in {"command", "server"}, NEW st \in RunStates, from = "command" => st \in {"running", "ended"},
         runs' = Append(runs, Run(id, config, f, from, st))
  PROVE  /\ RunsOK'
         /\ Len(runs) \in Nat /\ Len(runs') = Len(runs) + 1
         /\ DOMAIN runs = 1..Len(runs) /\ DOMAIN runs' = 1..(Len(runs) + 1)
         /\ \A n \in DOMAIN runs : runs'[n] = runs[n]
         /\ runs'[Len(runs) + 1] = Run(id, config, f, from, st)
<1> DEFINE r == Run(id, config, f, from, st)
<1>1. PICK S : runs \in Seq(S)
  BY DEF RunsOK
<1>2. runs \in Seq(S \cup {r})
  BY <1>1, SeqMonotonic
<1>3. /\ Append(runs, r) \in Seq(S \cup {r})
      /\ Len(runs) \in Nat /\ Len(Append(runs, r)) = Len(runs) + 1
      /\ DOMAIN runs = 1..Len(runs) /\ DOMAIN Append(runs, r) = 1..(Len(runs) + 1)
      /\ \A n \in DOMAIN runs : Append(runs, r)[n] = runs[n]
      /\ Append(runs, r)[Len(runs) + 1] = r
  <2> HIDE DEF r
  <2>1. r \in S \cup {r}
    OBVIOUS
  <2>2. /\ Append(runs, r) \in Seq(S \cup {r})
        /\ Len(Append(runs, r)) = Len(runs) + 1
        /\ Append(runs, r)[Len(runs) + 1] = r
        /\ \A i \in 1..Len(runs) : Append(runs, r)[i] = runs[i]
    BY <1>2, <2>1, AppendProperties
  <2>3. Len(runs) \in Nat /\ DOMAIN runs = 1..Len(runs)
    BY <1>2, LenProperties
  <2>4. DOMAIN Append(runs, r) = 1..Len(Append(runs, r))
    BY <2>2, LenProperties
  <2> QED BY <2>2, <2>3, <2>4
<1>4. RunRow(r)
  BY DEF RunRow, Run, RunStates
<1>5. RunsOK'
  <2>1. \E T : runs' \in Seq(T)
    BY <1>3
  <2>2. Len(runs') <= MaxRuns
    BY <1>3, ApiAssumption
  <2>3. \A n \in DOMAIN runs' : RunRow(runs'[n])
    <3> SUFFICES ASSUME NEW n \in DOMAIN runs' PROVE RunRow(runs'[n])
      OBVIOUS
    <3>1. n \in DOMAIN runs \/ n = Len(runs) + 1
      BY <1>3
    <3>2. runs' = Append(runs, r)
      OBVIOUS
    <3> HIDE DEF r
    <3>3. CASE n \in DOMAIN runs
      BY <1>3, <3>2, <3>3 DEF RunsOK
    <3>4. CASE n = Len(runs) + 1
      BY <1>3, <1>4, <3>2, <3>4
    <3> QED BY <3>1, <3>3, <3>4
  <2>4. (\A n \in DOMAIN runs : RunRow(runs[n]))'
    BY <2>3 DEF RunRow, Run
  <2> QED BY <2>1, <2>2, <2>4 DEF RunsOK
<1> QED BY <1>3, <1>5

\* A scan moves on; its configuration stays.
LEMMA RunMoved ==
  ASSUME RunsOK, NEW n \in DOMAIN runs, NEW st \in RunStates, runs' = [runs EXCEPT ![n].st = st],
         runs[n].from = "command" => st \in {"running", "ended"}
  PROVE  /\ RunsOK'
         /\ Len(runs) \in Nat /\ Len(runs') = Len(runs)
         /\ DOMAIN runs = 1..Len(runs) /\ DOMAIN runs' = DOMAIN runs
         /\ runs'[n] = Run(runs[n].id, runs[n].cfg, runs[n].file, runs[n].from, st)
         /\ \A m \in DOMAIN runs \ {n} : runs'[m] = runs[m]
<1> DEFINE r == Run(runs[n].id, runs[n].cfg, runs[n].file, runs[n].from, st)
<1>1. PICK S : runs \in Seq(S)
  BY DEF RunsOK
<1>2. runs \in Seq(S \cup {r})
  BY <1>1, SeqMonotonic
<1>3. [runs[n] EXCEPT !.st = st] = r
  <2>1. RunRow(runs[n])
    BY DEF RunsOK
  <2> QED BY <2>1 DEF RunRow, Run
<1>4. runs' = [runs EXCEPT ![n] = r]
  BY <1>3
<1>5. RunRow(r)
  <2>1. RunRow(runs[n])
    BY DEF RunsOK
  <2> QED BY <2>1 DEF RunRow, Run, RunStates
<1> HIDE DEF r
<1>6. Len(runs) \in Nat /\ DOMAIN runs = 1..Len(runs)
  BY <1>2, LenProperties
<1>7. /\ runs' \in Seq(S \cup {r})
      /\ Len(runs') = Len(runs)
      /\ \A j \in 1 .. Len(runs) : runs'[j] = IF j = n THEN r ELSE runs[j]
  <2>1. r \in S \cup {r} /\ n \in 1..Len(runs)
    BY <1>6
  <2> QED BY <1>2, <1>4, <2>1, ExceptSeq
<1>8. DOMAIN runs' = DOMAIN runs
  BY <1>4
<1>9. RunsOK'
  <2>1. \A m \in DOMAIN runs' : RunRow(runs'[m])
    BY <1>5, <1>6, <1>7, <1>8 DEF RunsOK
  <2>2. (\A m \in DOMAIN runs : RunRow(runs[m]))'
    BY <2>1 DEF RunRow, Run
  <2>3. \E T : runs' \in Seq(T)
    BY <1>7
  <2>4. Len(runs') <= MaxRuns
    BY <1>7 DEF RunsOK
  <2> QED BY <2>2, <2>3, <2>4 DEF RunsOK
<1> QED BY <1>6, <1>7, <1>8, <1>9 DEF r

\* A broadcast appends to the open channels that have room.
LEMMA Broadcast ==
  ASSUME ChannelsOK, NEW ev \in EventRow, chan' = BroadcastEvent(ev)
  PROVE  /\ ChannelsOK'
         /\ \A c \in Slot : \/ chan'[c] = chan[c]
                            \/ chan[c].open /\ chan'[c] = Channel(TRUE, chan[c].closed, Append(chan[c].buf, ev), chan[c].got)
<1>1. \A c \in Slot : \/ chan'[c] = chan[c]
                      \/ /\ chan[c].open /\ Len(chan[c].buf) < BufferCap
                         /\ chan'[c] = Channel(TRUE, chan[c].closed, Append(chan[c].buf, ev), chan[c].got)
  BY DEF BroadcastEvent
<1>2. ASSUME NEW c \in Slot PROVE chan'[c] \in ChannelRow /\ Len(chan'[c].buf) <= BufferCap
  <2>1. chan[c] \in ChannelRow /\ Len(chan[c].buf) <= BufferCap
    BY DEF ChannelsOK
  <2>2. chan[c].buf \in Seq(EventRow) /\ chan[c].got \in Seq(EventRow) /\ chan[c].closed \in BOOLEAN
    BY <2>1 DEF ChannelRow
  <2>3. Append(chan[c].buf, ev) \in Seq(EventRow) /\ Len(Append(chan[c].buf, ev)) = Len(chan[c].buf) + 1
    BY <2>2, AppendProperties
  <2>4. CASE chan'[c] = chan[c]
    BY <2>1, <2>4
  <2>5. CASE /\ chan[c].open /\ Len(chan[c].buf) < BufferCap
             /\ chan'[c] = Channel(TRUE, chan[c].closed, Append(chan[c].buf, ev), chan[c].got)
    <3> DEFINE b == Append(chan[c].buf, ev)
    <3>1. b \in Seq(EventRow) /\ Len(b) <= BufferCap
      <4>1. Len(chan[c].buf) \in Nat /\ BufferCap \in Nat
        BY <2>2, LenProperties, ApiAssumption
      <4> QED BY <2>3, <2>5, <4>1
    <3> HIDE DEF b
    <3>2. chan'[c] = Channel(TRUE, chan[c].closed, b, chan[c].got)
      BY <2>5 DEF b
    <3> QED BY <2>2, <3>1, <3>2 DEF Channel, ChannelRow
  <2> QED BY <1>1, <2>4, <2>5
<1>3. DOMAIN chan' = Slot /\ chan' = [c \in Slot |-> chan'[c]]
  BY DEF BroadcastEvent
<1>4. ChannelsOK'
  <2>1. chan' \in [Slot -> ChannelRow]
    BY <1>2, <1>3
  <2>2. \A c \in Slot : Len(chan'[c].buf) <= BufferCap
    BY <1>2
  <2> QED BY <2>1, <2>2 DEF ChannelsOK
<1> QED BY <1>1, <1>4

\* The channel of one connection is replaced.
LEMMA ChannelWritten ==
  ASSUME ChannelsOK, NEW c \in Slot, NEW row \in ChannelRow, Len(row.buf) <= BufferCap,
         chan' = [chan EXCEPT ![c] = row]
  PROVE  ChannelsOK' /\ chan'[c] = row /\ \A d \in Slot \ {c} : chan'[d] = chan[d]
BY DEF ChannelsOK

\* A subscriber's channel, and one that was never made.
LEMMA FreshChannel ==
  /\ Channel(TRUE, FALSE, <<>>, <<>>) \in ChannelRow /\ Len(Channel(TRUE, FALSE, <<>>, <<>>).buf) <= BufferCap
  /\ NoChannel \in ChannelRow /\ Len(NoChannel.buf) <= BufferCap
<1>1. <<>> \in Seq(EventRow) /\ Len(<<>>) = 0
  BY EmptySeq
<1> QED BY <1>1, ApiAssumption DEF Channel, NoChannel, ChannelRow

\* What the writer and the deferred function of a subscriber do to its channel.
LEMMA ChannelSteps ==
  ASSUME ChannelsOK, NEW c \in Slot
  PROVE  /\ ReceiveEvent(c) =>
              LET row == Channel(chan[c].open, chan[c].closed, Tail(chan[c].buf), Append(chan[c].got, Head(chan[c].buf)))
              IN  ChannelsOK' /\ chan' = [chan EXCEPT ![c] = row] /\ chan[c].buf # <<>>
         /\ Unsubscribe(c) => ChannelsOK' /\ chan' = [chan EXCEPT ![c] = Channel(FALSE, chan[c].closed, chan[c].buf, chan[c].got)]
         /\ CloseChannel(c) => ChannelsOK' /\ chan' = [chan EXCEPT ![c] = Channel(FALSE, TRUE, chan[c].buf, chan[c].got)]
<1>1. /\ chan[c] \in ChannelRow /\ Len(chan[c].buf) <= BufferCap
      /\ chan[c].open \in BOOLEAN /\ chan[c].closed \in BOOLEAN
      /\ chan[c].buf \in Seq(EventRow) /\ chan[c].got \in Seq(EventRow) /\ Len(chan[c].buf) \in Nat
  BY LenProperties DEF ChannelsOK, ChannelRow
<1>2. ASSUME ReceiveEvent(c)
      PROVE  LET row == Channel(chan[c].open, chan[c].closed, Tail(chan[c].buf), Append(chan[c].got, Head(chan[c].buf)))
             IN  ChannelsOK' /\ chan' = [chan EXCEPT ![c] = row] /\ chan[c].buf # <<>>
  <2> DEFINE b == Tail(chan[c].buf)
             g == Append(chan[c].got, Head(chan[c].buf))
  <2>1. chan[c].buf # <<>> /\ chan' = [chan EXCEPT ![c] = Channel(chan[c].open, chan[c].closed, b, g)]
    BY <1>2 DEF ReceiveEvent
  <2>2. b \in Seq(EventRow) /\ Len(b) <= BufferCap /\ g \in Seq(EventRow)
    <3>1. Head(chan[c].buf) \in EventRow /\ b \in Seq(EventRow) /\ Len(b) = Len(chan[c].buf) - 1
      BY <1>1, <2>1, HeadTailProperties
    <3> QED BY <1>1, <3>1, AppendProperties, ApiAssumption
  <2> HIDE DEF b, g
  <2>3. Channel(chan[c].open, chan[c].closed, b, g) \in ChannelRow /\ Len(Channel(chan[c].open, chan[c].closed, b, g).buf) <= BufferCap
    BY <1>1, <2>2 DEF Channel, ChannelRow
  <2>4. ChannelsOK'
    BY <2>1, <2>3, ChannelWritten
  <2> QED BY <2>1, <2>4 DEF b, g
<1>3. ASSUME Unsubscribe(c)
      PROVE  ChannelsOK' /\ chan' = [chan EXCEPT ![c] = Channel(FALSE, chan[c].closed, chan[c].buf, chan[c].got)]
  <2>2. chan' = [chan EXCEPT ![c] = Channel(FALSE, chan[c].closed, chan[c].buf, chan[c].got)]
    BY <1>3 DEF Unsubscribe
  <2>3. Channel(FALSE, chan[c].closed, chan[c].buf, chan[c].got) \in ChannelRow
          /\ Len(Channel(FALSE, chan[c].closed, chan[c].buf, chan[c].got).buf) <= BufferCap
    BY <1>1 DEF Channel, ChannelRow
  <2> QED BY <2>2, <2>3, ChannelWritten
<1>4. ASSUME CloseChannel(c)
      PROVE  ChannelsOK' /\ chan' = [chan EXCEPT ![c] = Channel(FALSE, TRUE, chan[c].buf, chan[c].got)]
  <2>1. Channel(FALSE, TRUE, chan[c].buf, chan[c].got) \in ChannelRow
          /\ Len(Channel(FALSE, TRUE, chan[c].buf, chan[c].got).buf) <= BufferCap
    BY <1>1 DEF Channel, ChannelRow
  <2> QED BY <1>4, <2>1, ChannelWritten DEF CloseChannel
<1> QED BY <1>2, <1>3, <1>4

----------------------------------------------------------------------------
(***************************************************************************)
(* Types.                                                                  *)
(***************************************************************************)

\* The row of a request without effect on the tables is replaced.
LEMMA RequestWritten ==
  ASSUME RequestsOK, PhasesOK, NEW c \in Slot, NEW r \in RequestRow, req' = [req EXCEPT ![c] = r],
         PhaseOK(r)
  PROVE  RequestsOK' /\ PhasesOK'
<1>1. RequestsOK' /\ req'[c] = r /\ \A d \in Slot \ {c} : req'[d] = req[d]
  BY RowWritten
<1> QED BY <1>1 DEF PhasesOK

\* The end of a handler keeps requests, counters and records typed.
LEMMA RespondTyped ==
  ASSUME TypeInv, NEW c \in Slot, NEW status \in {"ok", "rejected"}, NEW changed \in BOOLEAN,
         Respond(c, status, changed)
  PROVE  RequestsOK' /\ PhasesOK' /\ CountersOK' /\ RecordsOK'
<1>1. req[c] \in RequestRow
  BY DEF TypeInv, RequestsOK
<1>2. RequestsOK' /\ PhasesOK'
  <2>1. req' = [req EXCEPT ![c] = Responded(req[c], status)]
    BY RespondRow DEF TypeInv
  <2>2. Responded(req[c], status) \in RequestRow
    BY <1>1, RowsTyped
  <2>3. PhaseOK(Responded(req[c], status))
    BY DEF Responded, PhaseOK
  <2> QED BY <2>1, <2>2, <2>3, RequestWritten DEF TypeInv
<1>3. CountersOK'
  BY DEF Respond, TypeInv, CountersOK, serverVars
<1>4. RecordsOK'
  <2>1. effects' \subseteq effects \cup {[kind |-> req[c].kind, role |-> req[c].role]} /\ audit' = audit
    BY DEF Respond
  <2>2. req[c].kind \in Kind /\ req[c].role \in Role \cup {"none"}
    BY <1>1 DEF RequestRow
  <2> QED BY <2>1, <2>2 DEF TypeInv, RecordsOK
<1> QED BY <1>2, <1>3, <1>4

LEMMA TypeInit == Init => TypeInv
<1> SUFFICES ASSUME Init PROVE TypeInv
  OBVIOUS
<1>1. RequestsOK /\ PhasesOK
  BY RowsTyped DEF Init, RequestsOK, PhasesOK, PhaseOK, Idle, Request
<1>2. CountersOK
  BY ApiAssumption DEF Init, CountersOK
<1>3. TokensOK /\ RecordsOK
  BY DEF Init, TokensOK, RecordsOK
<1>4. ChannelsOK
  BY FreshChannel DEF Init, ChannelsOK
<1>5. RunsOK
  <2>1. <<>> \in Seq({}) /\ Len(<<>>) = 0 /\ DOMAIN <<>> = {}
    BY EmptySeq
  <2>2. runs = <<>>
    BY DEF Init
  <2> QED BY <2>1, <2>2, ApiAssumption DEF RunsOK
<1>6. IdentitiesOK
  BY EmptySeq DEF Init, IdentityInit, IdentitiesOK
<1> QED BY <1>1, <1>2, <1>3, <1>4, <1>5, <1>6 DEF TypeInv

\* The file, the server's start and a scan of the command line.
LEMMA TypeConfigure ==
  ASSUME TypeInv, Configure
  PROVE  TypeInv'
<1> USE DEF TypeInv
<1>1. CASE \E i \in Input : RunEngagementWizard(i)
  BY <1>1 DEF RunEngagementWizard, apiVars, identityVars, RequestsOK, PhasesOK, CountersOK, TokensOK, RecordsOK,
              ChannelsOK, RunsOK, RunRow, Run, IdentitiesOK
<1>2. CASE \E f \in HandFile : WriteFile(f)
  BY <1>2 DEF WriteFile, apiVars, identityVars, RequestsOK, PhasesOK, CountersOK, TokensOK, RecordsOK,
              ChannelsOK, RunsOK, RunRow, Run, IdentitiesOK
<1>3. CASE \E e \in Edit : EditFile(e)
  <2>1. edits < MaxEdits /\ edits' = edits + 1 /\ UNCHANGED <<loaded, cfg, apiVars, runs, chan, identityVars>>
    BY <1>3 DEF EditFile
  <2>2. CountersOK'
    BY <2>1, ApiAssumption DEF CountersOK, apiVars
  <2> QED BY <2>1, <2>2 DEF apiVars, identityVars, RequestsOK, PhasesOK, TokensOK, RecordsOK,
              ChannelsOK, RunsOK, RunRow, Run, IdentitiesOK
<1>4. CASE StartServer
  <2>1. TokensOK'
    BY <1>4 DEF StartServer, TokensOK, TokenMap
  <2> QED BY <1>4, <2>1 DEF StartServer, identityVars, RequestsOK, PhasesOK, CountersOK, RecordsOK,
              ChannelsOK, RunsOK, RunRow, Run, IdentitiesOK
<1>5. ASSUME NEW id \in ScanId, RunCommand(id) PROVE TypeInv'
  <2> DEFINE st == IF EngineAccepts(Load(file)) THEN "running" ELSE "ended"
  <2>1. Len(runs) < MaxRuns /\ runs' = Append(runs, Run(id, Load(file), file, "command", st))
    BY <1>5 DEF RunCommand
  <2>2. st \in RunStates /\ st \in {"running", "ended"}
    BY DEF RunStates
  <2> HIDE DEF st
  <2>3. RunsOK'
    BY <2>1, <2>2, RunAdded
  <2> QED BY <1>5, <2>3 DEF RunCommand, serverVars, apiVars, identityVars, RequestsOK, PhasesOK, CountersOK,
              TokensOK, RecordsOK, ChannelsOK, IdentitiesOK
<1> QED BY <1>1, <1>2, <1>3, <1>4, <1>5 DEF Configure

\* The goroutine of a scan.
LEMMA TypeScan ==
  ASSUME TypeInv, NEW n \in DOMAIN runs, RunGoroutine(n) \/ StartEngine(n) \/ FinishRun(n)
  PROVE  TypeInv'
<1> USE DEF TypeInv
<1>1. UNCHANGED <<serverVars, apiVars, identityVars>>
  BY DEF RunGoroutine, StartEngine, FinishRun
<1>2. RunGoroutine(n) => RunsOK'
  <2> SUFFICES ASSUME RunGoroutine(n) PROVE RunsOK'
    OBVIOUS
  <2>1. runs' = [runs EXCEPT ![n].st = "started"] /\ runs[n].st = "launched"
    BY DEF RunGoroutine
  <2>2. RunRow(runs[n])
    BY DEF RunsOK
  <2>3. runs[n].from # "command" /\ "started" \in RunStates
    BY <2>1, <2>2 DEF RunRow, RunStates
  <2> QED BY <2>1, <2>3, RunMoved
<1>3. RunsOK'
  <2>1. CASE StartEngine(n) /\ EngineAccepts(runs[n].cfg)
    <3>1. runs' = [runs EXCEPT ![n].st = "running"] /\ "running" \in RunStates
      BY <2>1 DEF StartEngine, RunStates
    <3> QED BY <3>1, RunMoved
  <2>2. CASE StartEngine(n) /\ ~EngineAccepts(runs[n].cfg)
    <3>1. runs' = [runs EXCEPT ![n].st = "ended"] /\ "ended" \in RunStates
      BY <2>2 DEF StartEngine, RunStates
    <3> QED BY <3>1, RunMoved
  <2>3. CASE FinishRun(n)
    <3>1. runs' = [runs EXCEPT ![n].st = "ended"] /\ "ended" \in RunStates
      BY <2>3 DEF FinishRun, RunStates
    <3> QED BY <3>1, RunMoved
  <2> QED BY <1>2, <2>1, <2>2, <2>3
<1>4. n \in Nat /\ n # 0 /\ runs[n].id \in ScanId
  <2>1. PICK S : runs \in Seq(S)
    BY DEF RunsOK
  <2> QED BY <2>1, LenProperties DEF RunsOK, RunRow
<1>5. ChannelsOK'
  <2>1. \A type \in {"engine.started", "scan.completed", "scan.failed"} : Event(n, runs[n].id, type) \in EventRow
    BY <1>4 DEF Event, EventRow
  <2>2. UNCHANGED chan \/ \E type \in {"engine.started", "scan.completed", "scan.failed"} :
                              chan' = BroadcastEvent(Event(n, runs[n].id, type))
    BY DEF RunGoroutine, StartEngine, FinishRun
  <2>3. CASE UNCHANGED chan
    BY <2>3 DEF ChannelsOK
  <2> QED BY <2>1, <2>2, <2>3, Broadcast
<1> QED BY <1>1, <1>3, <1>5 DEF serverVars, apiVars, identityVars, RequestsOK, PhasesOK, CountersOK, TokensOK,
           RecordsOK, IdentitiesOK


\* Connections: requests and subscriptions begin, handlers that touch no identity.
LEMMA TypeRequest ==
  ASSUME TypeInv, NEW c \in Slot,
         \/ \E kind \in Kind, method \in Method, token \in Token \cup {NoToken} : Authenticate(c, kind, method, token)
         \/ \E token \in Token \cup {NoToken} : OpenStream(c, token)
         \/ RecordAPIAudit(c)
         \/ ReceiveEvent(c) \/ Unsubscribe(c) \/ CloseChannel(c)
  PROVE  TypeInv'
<1> USE DEF TypeInv
<1>0. req[c] \in RequestRow /\ Idle \in RequestRow /\ PhaseOK(Idle)
  BY RowsTyped DEF RequestsOK, Idle, Request, PhaseOK
<1>1. ASSUME NEW kind \in Kind, NEW method \in Method, NEW token \in Token \cup {NoToken}, Authenticate(c, kind, method, token)
      PROVE  TypeInv'
  <2> DEFINE r == Request("authenticated", kind, method, Principal(kind, token))
  <2>1. Principal(kind, token) \in Role \cup {"none"}
    BY DEF Principal, PrincipalForToken, TokensOK
  <2>2. r \in RequestRow /\ PhaseOK(r)
    BY <2>1, RowsTyped DEF Request, PhaseOK
  <2>3. req' = req \/ req' = [req EXCEPT ![c] = r]
    BY <1>1 DEF Authenticate
  <2> HIDE DEF r
  <2>4. RequestsOK' /\ PhasesOK'
    BY <2>2, <2>3, RequestWritten DEF RequestsOK, PhasesOK
  <2>5. CountersOK'
    BY <1>1, ApiAssumption DEF Authenticate, CountersOK, serverVars
  <2>6. ChannelsOK'
    BY <1>1, FreshChannel, ChannelWritten DEF Authenticate
  <2> QED BY <1>1, <2>4, <2>5, <2>6 DEF Authenticate, serverVars, identityVars, TokensOK, RecordsOK, RunsOK, RunRow, Run, IdentitiesOK
<1>2. ASSUME NEW token \in Token \cup {NoToken}, OpenStream(c, token)
      PROVE  TypeInv'
  <2>1. Request("stream", "run", "GET", "none") \in RequestRow /\ PhaseOK(Request("stream", "run", "GET", "none"))
    BY RowsTyped DEF Request, PhaseOK, Kind, ChangesOn, Method
  <2>2. RequestsOK' /\ PhasesOK'
    BY <1>2, <2>1, RequestWritten DEF OpenStream
  <2>3. CountersOK'
    BY <1>2, ApiAssumption DEF OpenStream, CountersOK, serverVars
  <2>4. ChannelsOK'
    BY <1>2, FreshChannel, ChannelWritten DEF OpenStream, Subscribe
  <2> QED BY <1>2, <2>2, <2>3, <2>4 DEF OpenStream, Subscribe, TokensOK, RecordsOK, RunsOK, RunRow, Run, IdentitiesOK
<1>3. CASE RecordAPIAudit(c)
  <2>1. RequestsOK' /\ PhasesOK'
    BY <1>0, <1>3, RequestWritten DEF RecordAPIAudit
  <2>2. RecordsOK'
    <3>1. req[c].status \in {"ok", "rejected"}
      BY <1>3 DEF RecordAPIAudit, PhasesOK, PhaseOK
    <3>2. req[c].kind \in Kind /\ req[c].role \in Role \cup {"none"}
      BY <1>0 DEF RequestRow
    <3>3. audit' \subseteq audit \cup {[kind |-> req[c].kind, role |-> req[c].role, status |-> req[c].status]} /\ effects' = effects
      BY <1>3 DEF RecordAPIAudit
    <3> QED BY <3>1, <3>2, <3>3 DEF RecordsOK
  <2> QED BY <1>3, <2>1, <2>2 DEF RecordAPIAudit, serverVars, identityVars, CountersOK, TokensOK, ChannelsOK, RunsOK, RunRow, Run, IdentitiesOK
<1>4. CASE ReceiveEvent(c)
  <2>1. ChannelsOK'
    BY <1>4, ChannelSteps
  <2> QED BY <1>4, <2>1 DEF ReceiveEvent, serverVars, apiVars, identityVars, RequestsOK, PhasesOK, CountersOK, TokensOK,
             RecordsOK, RunsOK, RunRow, Run, IdentitiesOK
<1>5. CASE Unsubscribe(c)
  <2>1. ChannelsOK'
    BY <1>5, ChannelSteps
  <2>2. req' = [req EXCEPT ![c] = Leaving(req[c])]
    BY <1>5, GotoRow DEF Unsubscribe, Leaving
  <2>3. Leaving(req[c]) \in RequestRow /\ PhaseOK(Leaving(req[c]))
    BY <1>0, RowsTyped DEF Leaving, PhaseOK
  <2>4. RequestsOK' /\ PhasesOK'
    BY <2>2, <2>3, RequestWritten
  <2> QED BY <1>5, <2>1, <2>4 DEF Unsubscribe, serverVars, identityVars, CountersOK, TokensOK, RecordsOK, RunsOK, RunRow, Run, IdentitiesOK
<1>6. CASE CloseChannel(c)
  <2>1. ChannelsOK'
    BY <1>6, ChannelSteps
  <2>2. RequestsOK' /\ PhasesOK'
    BY <1>0, <1>6, RequestWritten DEF CloseChannel
  <2> QED BY <1>6, <2>1, <2>2 DEF CloseChannel, serverVars, identityVars, CountersOK, TokensOK, RecordsOK, RunsOK, RunRow, Run, IdentitiesOK
<1> QED BY <1>1, <1>2, <1>3, <1>4, <1>5, <1>6

\* A handler that ends with a response leaves organizations, users, sessions alone.
LEMMA TypeHandler ==
  ASSUME TypeInv, NEW c \in Slot,
         \/ Reject(c) \/ ReloadAPITokens(c) \/ \E id \in ScanId : ControlScan(c, id)
         \/ HandleEngagementPlan(c) \/ HandleDelete(c) \/ HandleWrite(c) \/ HandleDistributedAgent(c)
         \/ \E ask \in Asked, id \in ScanId : DispatchScan(c, ask, id)
  PROVE  TypeInv'
<1>1. \E status \in {"ok", "rejected"}, changed \in BOOLEAN : Respond(c, status, changed)
  BY DEF Reject, ReloadAPITokens, ControlScan, HandleEngagementPlan, HandleDelete, HandleWrite, HandleDistributedAgent, Serves, DispatchScan
<1>2. RequestsOK' /\ PhasesOK' /\ CountersOK' /\ RecordsOK'
  BY <1>1, RespondTyped
<1> USE DEF TypeInv
<1>3. TokensOK'
  BY DEF Reject, ReloadAPITokens, ControlScan, HandleEngagementPlan, HandleDelete, HandleWrite, HandleDistributedAgent, Serves, DispatchScan,
         TokensOK, TokenMap
<1>4. IdentitiesOK'
  BY DEF Reject, ReloadAPITokens, ControlScan, HandleEngagementPlan, HandleDelete, HandleWrite, HandleDistributedAgent, Serves, DispatchScan,
         identityVars, IdentitiesOK
<1>5. RunsOK' /\ ChannelsOK'
  <2>1. ASSUME NEW ask \in Asked, NEW id \in ScanId, DispatchScan(c, ask, id), RequestedConfig(ask) # NoConfig
        PROVE  RunsOK' /\ ChannelsOK'
    <3>1. /\ Len(runs) < MaxRuns
          /\ runs' = Append(runs, Run(id, RequestedConfig(ask), loaded, "server", "launched"))
          /\ chan' = BroadcastEvent(Event(Len(runs) + 1, id, "scan.dispatched"))
      BY <2>1 DEF DispatchScan
    <3>2. RunsOK' /\ Len(runs) \in Nat
      BY <3>1, RunAdded DEF RunStates
    <3>3. Event(Len(runs) + 1, id, "scan.dispatched") \in EventRow
      BY <3>2 DEF Event, EventRow
    <3>4. ChannelsOK'
      BY <3>1, <3>3, Broadcast
    <3> QED BY <3>2, <3>4
  <2>2. ASSUME NEW id \in ScanId, ControlScan(c, id) PROVE RunsOK' /\ ChannelsOK'
    <3>1. Event(0, id, "scan.control") \in EventRow
      BY DEF Event, EventRow
    <3>2. chan' = BroadcastEvent(Event(0, id, "scan.control")) /\ UNCHANGED runs
      BY <2>2 DEF ControlScan
    <3>3. ChannelsOK'
      BY <3>1, <3>2, Broadcast
    <3> QED BY <3>2, <3>3 DEF RunsOK, RunRow, Run
  <2>3. CASE UNCHANGED <<runs, chan>>
    BY <2>3 DEF RunsOK, RunRow, Run, ChannelsOK
  <2> QED BY <2>1, <2>2, <2>3 DEF Reject, ReloadAPITokens, HandleEngagementPlan, HandleDelete, HandleWrite, HandleDistributedAgent, Serves, DispatchScan
<1> QED BY <1>2, <1>3, <1>4, <1>5

\* What a sequence is after an element is appended to it.
LEMMA Appended ==
  ASSUME NEW S, NEW s \in Seq(S), NEW e \in S, NEW t, t = Append(s, e)
  PROVE  /\ t \in Seq(S) /\ Len(s) \in Nat /\ Len(t) = Len(s) + 1
         /\ DOMAIN s = 1..Len(s) /\ DOMAIN t = 1..(Len(s) + 1)
         /\ \A i \in DOMAIN s : t[i] = s[i]
         /\ t[Len(s) + 1] = e
<1>1. t \in Seq(S) /\ Len(t) = Len(s) + 1 /\ t[Len(s) + 1] = e /\ \A i \in 1..Len(s) : t[i] = s[i]
  BY AppendProperties
<1>2. Len(s) \in Nat /\ DOMAIN s = 1..Len(s) /\ DOMAIN t = 1..Len(t)
  BY <1>1, LenProperties
<1> QED BY <1>1, <1>2

\* The user a login carries on is a stored one, or one that this step provisions
\* for a claim no user had.
Resolved(user) ==
  \/ /\ UNCHANGED <<orgs, users>>
     /\ \E u \in DOMAIN users : user = Carried(u, users[u].org, users[u].role)
  \/ \E row \in User :
       /\ users' = Append(users, row) /\ orgs' \subseteq OrgId
       /\ row.via # "local"
       /\ \A u \in DOMAIN users : ~(users[u].email = row.email /\ users[u].org = row.org)
       /\ user = Carried(Len(users) + 1, row.org, row.role)

LEMMA SignOnStep ==
  ASSUME IdentitiesOK, NEW email \in Email, NEW org \in OrgName \X {0}, NEW role \in Role, NEW via \in {"oidc", "saml"},
         NEW user, SignOn(email, org, role, via, user)
  PROVE  Resolved(user)
<1>1. org \in OrgId
  BY DEF OrgId
<1>2. CASE Known(email, org) # {}
  BY <1>2 DEF SignOn, Known, Resolved
<1>3. CASE Known(email, org) = {}
  <2> DEFINE row == [org |-> org, email |-> email, role |-> role, via |-> via]
  <2>1. row \in User /\ row.org = org /\ row.email = email /\ row.role = role /\ row.via # "local"
    BY <1>1 DEF User
  <2>2. user = Carried(Len(users) + 1, org, role) /\ users' = Append(users, row) /\ orgs' = orgs \cup {org}
    BY <1>3 DEF SignOn, Provision
  <2>3. \A u \in DOMAIN users : ~(users[u].email = email /\ users[u].org = org)
    BY <1>3 DEF Known
  <2>4. orgs' \subseteq OrgId
    BY <1>1, <2>2 DEF IdentitiesOK
  <2> HIDE DEF row
  <2> QED BY <2>1, <2>2, <2>3, <2>4 DEF Resolved
<1> QED BY <1>2, <1>3

\* The first lock of a login.
LEMMA FindUserStep ==
  ASSUME TypeInv, NEW c \in Slot, FindUser(c)
  PROVE  \E user \in UserCopy :
           req' = [req EXCEPT ![c] = LoggingIn(req[c], user)] /\ Resolved(user)
<1>1. PICK user \in [id: 1..(Len(users) + 1), org: OrgId, role: Role] :
        /\ IF req[c].kind = "login"
           THEN (\E u \in DOMAIN users : user = Carried(u, users[u].org, users[u].role)) /\ UNCHANGED <<orgs, users>>
           ELSE \E org \in OrgName \X {0}, email \in Email, claim \in Role \cup {"guest"} :
                  \/ SignOn(email, org, OIDCRole({claim}), "oidc", user)
                  \/ SignOn(email, org, SAMLRole(claim), "saml", user)
        /\ req' = [Goto(c, "login") EXCEPT ![c].user = user]
  BY DEF FindUser
<1>2. user \in UserCopy
  <2>1. Len(users) \in Nat
    BY LenProperties DEF TypeInv, IdentitiesOK
  <2> QED BY <1>1, <2>1 DEF UserCopy
<1>3. req' = [req EXCEPT ![c] = LoggingIn(req[c], user)]
  BY <1>1, LoginRow DEF TypeInv
<1>4. Resolved(user)
  <2>1. CASE req[c].kind = "login"
    BY <1>1, <2>1 DEF Resolved
  <2>2. CASE req[c].kind # "login"
    <3>1. PICK org \in OrgName \X {0}, email \in Email, role \in Role, via \in {"oidc", "saml"} :
            SignOn(email, org, role, via, user)
      <4>1. \A claim \in Role \cup {"guest"} : OIDCRole({claim}) \in Role /\ SAMLRole(claim) \in Role
        BY DEF OIDCRole, SAMLRole, Role
      <4> QED BY <1>1, <2>2, <4>1
    <3>2. IdentitiesOK
      BY DEF TypeInv
    <3> QED BY <3>1, <3>2, SignOnStep
  <2> QED BY <2>1, <2>2
<1> QED BY <1>2, <1>3, <1>4

\* The handlers of organizations, users and sessions.
LEMMA TypeIdentity ==
  ASSUME TypeInv, NEW c \in Slot,
         HandleOrganizations(c) \/ HandleUsers(c) \/ FindUser(c) \/ Login(c) \/ Logout(c)
  PROVE  TypeInv'
<1> USE DEF TypeInv
<1>0. users \in Seq(User) /\ sessions \in Seq(Session) /\ orgs \subseteq OrgId
  BY DEF IdentitiesOK
<1>1. CASE HandleOrganizations(c)
  <2>1. RequestsOK' /\ PhasesOK' /\ CountersOK' /\ RecordsOK'
    BY <1>1, RespondTyped DEF HandleOrganizations
  <2>2. orgs' \subseteq OrgId
    <3>1. PICK name \in OrgName, s \in Second : orgs' = orgs \cup {IF <<name, 0>> \in orgs THEN <<name, s>> ELSE <<name, 0>>}
      BY <1>1 DEF HandleOrganizations, CreateOrganization
    <3>2. <<name, s>> \in OrgId /\ <<name, 0>> \in OrgId
      BY <3>1 DEF OrgId
    <3> QED BY <1>0, <3>1, <3>2
  <2> QED BY <1>0, <1>1, <2>1, <2>2 DEF HandleOrganizations, TokensOK, ChannelsOK, RunsOK, RunRow, Run, IdentitiesOK
<1>2. CASE HandleUsers(c)
  <2>1. RequestsOK' /\ PhasesOK' /\ CountersOK' /\ RecordsOK'
    BY <1>2, RespondTyped DEF HandleUsers
  <2>2. users' \in Seq(User)
    <3>1. PICK org \in OrgId, email \in Email, role \in Role :
            users' = Append(users, [org |-> org, email |-> Lower(email), role |-> role, via |-> "local"])
      BY <1>2 DEF HandleUsers, CreateUser
    <3>2. [org |-> org, email |-> Lower(email), role |-> role, via |-> "local"] \in User
      BY <3>1 DEF User, Email, Lower
    <3> QED BY <1>0, <3>1, <3>2, AppendProperties
  <2> QED BY <1>0, <1>2, <2>1, <2>2 DEF HandleUsers, TokensOK, ChannelsOK, RunsOK, RunRow, Run, IdentitiesOK
<1>3. CASE FindUser(c)
  <2>1. PICK user \in UserCopy :
          req' = [req EXCEPT ![c] = LoggingIn(req[c], user)] /\ Resolved(user)
    BY <1>3, FindUserStep
  <2>2. RequestsOK' /\ PhasesOK'
    <3>1. req[c] \in RequestRow
      BY DEF RequestsOK
    <3>2. LoggingIn(req[c], user) \in RequestRow /\ PhaseOK(LoggingIn(req[c], user))
      BY <2>1, <3>1, RowsTyped DEF LoggingIn, PhaseOK
    <3> QED BY <2>1, <3>2, RequestWritten
  <2>3. users' \in Seq(User) /\ orgs' \subseteq OrgId
    <3>1. CASE UNCHANGED <<orgs, users>>
      BY <1>0, <3>1
    <3>2. CASE \E row \in User : users' = Append(users, row) /\ orgs' \subseteq OrgId
      BY <1>0, <3>2, AppendProperties
    <3> QED BY <2>1, <3>1, <3>2 DEF Resolved
  <2> QED BY <1>0, <1>3, <2>2, <2>3 DEF FindUser, serverVars, CountersOK, TokensOK, RecordsOK, ChannelsOK, RunsOK, RunRow, Run, IdentitiesOK
<1>4. CASE Login(c)
  <2>1. RequestsOK' /\ PhasesOK' /\ CountersOK' /\ RecordsOK'
    BY <1>4, RespondTyped DEF Login
  <2>2. sessions' \in Seq(Session)
    <3> DEFINE u == req[c].user
               row == [user |-> u.id, org |-> u.org, role |-> u.role, revoked |-> FALSE]
    <3>1. sessions' = Append(sessions, row)
      BY <1>4 DEF Login, CreateSession
    <3>2. u \in UserCopy
      BY <1>4 DEF Login, PhasesOK, PhaseOK
    <3>3. row \in Session
      BY <3>2 DEF Session, UserCopy
    <3> QED BY <1>0, <3>1, <3>3, AppendProperties
  <2> QED BY <1>0, <1>4, <2>1, <2>2 DEF Login, TokensOK, ChannelsOK, RunsOK, RunRow, Run, IdentitiesOK
<1>5. CASE Logout(c)
  <2>1. RequestsOK' /\ PhasesOK' /\ CountersOK' /\ RecordsOK'
    BY <1>5, RespondTyped DEF Logout
  <2>2. sessions' \in Seq(Session)
    <3>1. PICK s \in DOMAIN sessions : sessions' = [sessions EXCEPT ![s] = [sessions[s] EXCEPT !.revoked = TRUE]]
      BY <1>5 DEF Logout, RevokeSession
    <3>2. s \in 1..Len(sessions) /\ sessions[s] \in Session
      BY <1>0, <3>1, LenProperties, ElementOfSeq
    <3>3. [sessions[s] EXCEPT !.revoked = TRUE] \in Session
      BY <3>2 DEF Session, UserCopy
    <3> QED BY <1>0, <3>1, <3>2, <3>3, ExceptSeq
  <2> QED BY <1>0, <1>5, <2>1, <2>2 DEF Logout, TokensOK, ChannelsOK, RunsOK, RunRow, Run, IdentitiesOK
<1> QED BY <1>1, <1>2, <1>3, <1>4, <1>5


LEMMA TypeStep == TypeInv /\ [Next]_vars => TypeInv'
<1> SUFFICES ASSUME TypeInv, [Next]_vars PROVE TypeInv'
  OBVIOUS
<1>1. CASE UNCHANGED vars
  BY <1>1 DEF vars, serverVars, apiVars, identityVars, TypeInv, RequestsOK, PhasesOK, CountersOK, TokensOK, RecordsOK,
              ChannelsOK, RunsOK, RunRow, Run, IdentitiesOK
<1>2. CASE Configure
  BY <1>2, TypeConfigure
<1>3. ASSUME NEW c \in Slot, Serve(c)
      PROVE  TypeInv'
  BY <1>3, TypeRequest, TypeHandler, TypeIdentity, SentAssumption DEF Serve
<1>4. ASSUME NEW c \in Slot, ReceiveEvent(c) \/ Unsubscribe(c) \/ CloseChannel(c)
      PROVE  TypeInv'
  BY <1>4, TypeRequest
<1>5. ASSUME NEW n \in DOMAIN runs, RunGoroutine(n) \/ StartEngine(n) \/ FinishRun(n)
      PROVE  TypeInv'
  BY <1>5, TypeScan
<1> QED BY <1>1, <1>2, <1>3, <1>4, <1>5 DEF Next

LEMMA TypeAlways == Spec => []TypeInv
<1>1. Init => TypeInv
  BY TypeInit
<1>2. TypeInv /\ [Next]_vars => TypeInv'
  BY TypeStep
<1> QED BY <1>1, <1>2, PTL DEF Spec

\* TypeInv says at least what TypeOK says.
LEMMA TypeInvTypeOK == TypeInv => TypeOK
<1> SUFFICES ASSUME TypeInv PROVE TypeOK
  OBVIOUS
<1>1. IdentityTypeOK
  BY LenProperties, ElementOfSeq DEF TypeInv, IdentitiesOK, IdentityTypeOK
<1>2. \A c \in Slot : chan[c].open \in BOOLEAN /\ chan[c].closed \in BOOLEAN /\ Len(chan[c].buf) <= BufferCap
  BY DEF TypeInv, ChannelsOK, ChannelRow
<1> QED BY <1>1, <1>2 DEF TypeInv, TypeOK, RequestsOK, CountersOK, TokensOK, RecordsOK, RunsOK

----------------------------------------------------------------------------
(***************************************************************************)
(* Users and sessions.  Between the two locks of a login the handler holds *)
(* a copy of the user; users are never changed or removed, so the copy is  *)
(* still right when the session is made from it.                           *)
(***************************************************************************)

CarriedRight ==
  \A c \in Slot : req[c].st = "login" =>
    LET user == req[c].user IN
    /\ user.id \in DOMAIN users
    /\ user.org = users[user.id].org /\ user.role = users[user.id].role

IdentityInv == OneUserPerClaim /\ SessionOfUser /\ CarriedRight

\* Steps that touch neither users nor sessions and lead no request between the
\* two locks.
LEMMA IdentityFrame ==
  ASSUME TypeInv, IdentityInv, UNCHANGED <<users, sessions>>,
         \A c \in Slot : req'[c].st = "login" => req'[c] = req[c]
  PROVE  IdentityInv'
BY DEF IdentityInv, OneUserPerClaim, SessionOfUser, CarriedRight

\* A response is not between the two locks.
LEMMA RespondLeaves ==
  ASSUME TypeInv, NEW c \in Slot, NEW status \in {"ok", "rejected"}, NEW changed, Respond(c, status, changed)
  PROVE  /\ req'[c] = Responded(req[c], status) /\ req'[c].st = "respond"
         /\ \A d \in Slot \ {c} : req'[d] = req[d]
<1>1. req' = [req EXCEPT ![c] = Responded(req[c], status)]
  BY RespondRow DEF TypeInv
<1>2. Responded(req[c], status).st = "respond"
  BY DEF Responded
<1> QED BY <1>1, <1>2 DEF TypeInv, RequestsOK

\* Users only grow: what held of the stored ones still holds.
LEMMA UsersGrow ==
  ASSUME TypeInv, IdentityInv, NEW row \in User, users' = Append(users, row), UNCHANGED sessions,
         row.via = "local" \/ \A u \in DOMAIN users : ~(users[u].email = row.email /\ users[u].org = row.org)
  PROVE  OneUserPerClaim' /\ SessionOfUser'
<1>1. /\ Len(users) \in Nat /\ DOMAIN users = 1..Len(users) /\ DOMAIN users' = 1..(Len(users) + 1)
      /\ \A i \in DOMAIN users : users'[i] = users[i]
      /\ users'[Len(users) + 1] = row
  BY Appended DEF TypeInv, IdentitiesOK
<1>2. OneUserPerClaim'
  <2> SUFFICES ASSUME NEW u \in DOMAIN users', NEW v \in DOMAIN users',
                      users'[u].via # "local", users'[v].via # "local",
                      users'[u].email = users'[v].email, users'[u].org = users'[v].org
               PROVE  u = v
    BY DEF OneUserPerClaim
  <2>1. CASE u \in DOMAIN users /\ v \in DOMAIN users
    BY <1>1, <2>1 DEF IdentityInv, OneUserPerClaim
  <2>2. CASE u = Len(users) + 1 /\ v \in DOMAIN users
    BY <1>1, <2>2
  <2>3. CASE v = Len(users) + 1 /\ u \in DOMAIN users
    BY <1>1, <2>3
  <2> QED BY <1>1, <2>1, <2>2, <2>3
<1>3. SessionOfUser'
  BY <1>1 DEF IdentityInv, SessionOfUser
<1> QED BY <1>2, <1>3

\* What the steps of a connection other than handlers do to its row.
LEMMA ConnectionRow ==
  ASSUME TypeInv, NEW c \in Slot,
         \/ \E kind \in Kind, method \in Method, token \in Token \cup {NoToken} : Authenticate(c, kind, method, token)
         \/ \E token \in Token \cup {NoToken} : OpenStream(c, token)
         \/ RecordAPIAudit(c)
         \/ ReceiveEvent(c) \/ Unsubscribe(c) \/ CloseChannel(c)
  PROVE  /\ \A d \in Slot \ {c} : req'[d] = req[d]
         /\ req'[c] = req[c] \/ req'[c].st \in {"authenticated", "stream", "leaving", "idle"}
         /\ UNCHANGED <<serverVars, tokens, effects, identityVars, runs>>
<1>0. c \in DOMAIN req /\ DOMAIN req = Slot /\ RequestsOK
  BY DEF TypeInv, RequestsOK
<1>u. UNCHANGED <<serverVars, tokens, effects, identityVars, runs>>
  BY DEF Authenticate, OpenStream, Subscribe, RecordAPIAudit, CloseChannel, ReceiveEvent, Unsubscribe, apiVars, identityVars
<1>1. ASSUME NEW kind \in Kind, NEW method \in Method, NEW token \in Token \cup {NoToken}, Authenticate(c, kind, method, token)
      PROVE  /\ \A d \in Slot \ {c} : req'[d] = req[d]
             /\ req'[c] = req[c] \/ req'[c].st \in {"authenticated", "stream", "leaving", "idle"}
  BY <1>0, <1>1 DEF Authenticate, Request
<1>2. ASSUME NEW token \in Token \cup {NoToken}, OpenStream(c, token)
      PROVE  /\ \A d \in Slot \ {c} : req'[d] = req[d]
             /\ req'[c] = req[c] \/ req'[c].st \in {"authenticated", "stream", "leaving", "idle"}
  BY <1>0, <1>2 DEF OpenStream, Request
<1>3. CASE RecordAPIAudit(c) \/ CloseChannel(c)
  <2>1. req' = [req EXCEPT ![c] = Idle] /\ Idle.st = "idle"
    BY <1>3 DEF RecordAPIAudit, CloseChannel, Idle, Request
  <2> QED BY <1>0, <1>u, <2>1
<1>4. CASE ReceiveEvent(c)
  BY <1>4, <1>u DEF ReceiveEvent, apiVars
<1>5. CASE Unsubscribe(c)
  <2>1. req' = [req EXCEPT ![c] = Leaving(req[c])]
    BY <1>0, <1>5, GotoRow DEF Unsubscribe, Leaving
  <2>2. Leaving(req[c]).st = "leaving"
    BY DEF Leaving
  <2> QED BY <1>0, <1>u, <2>1, <2>2
<1> QED BY <1>1, <1>2, <1>3, <1>4, <1>5, <1>u

LEMMA IdentityInitially == Init => IdentityInv
BY DEF Init, IdentityInit, IdentityInv, OneUserPerClaim, SessionOfUser, CarriedRight, Idle, Request

LEMMA IdentityStep == TypeInv /\ IdentityInv /\ [Next]_vars => IdentityInv'
<1> SUFFICES ASSUME TypeInv, IdentityInv, [Next]_vars PROVE IdentityInv'
  OBVIOUS
<1>0. users \in Seq(User) /\ sessions \in Seq(Session) /\ DOMAIN req = Slot
  BY DEF TypeInv, IdentitiesOK, RequestsOK
<1>1. CASE UNCHANGED <<req, users, sessions>>
  BY <1>1, IdentityFrame
<1>2. CASE UNCHANGED vars \/ Configure \/ \E n \in DOMAIN runs : RunGoroutine(n) \/ StartEngine(n) \/ FinishRun(n)
  BY <1>1, <1>2 DEF vars, Configure, RunEngagementWizard, WriteFile, EditFile, StartServer, RunCommand,
     RunGoroutine, StartEngine, FinishRun, apiVars, identityVars
<1>3. ASSUME NEW c \in Slot,
             \/ \E kind \in Kind, method \in Method, token \in Token \cup {NoToken} : Authenticate(c, kind, method, token)
             \/ \E token \in Token \cup {NoToken} : OpenStream(c, token)
             \/ RecordAPIAudit(c)
             \/ ReceiveEvent(c) \/ Unsubscribe(c) \/ CloseChannel(c)
      PROVE  IdentityInv'
  <2>1. /\ \A d \in Slot \ {c} : req'[d] = req[d]
        /\ req'[c] = req[c] \/ req'[c].st \in {"authenticated", "stream", "leaving", "idle"}
        /\ UNCHANGED identityVars
    BY <1>3, ConnectionRow
  <2> QED BY <2>1, IdentityFrame DEF identityVars
<1>4. ASSUME NEW c \in Slot,
             \/ Reject(c) \/ ReloadAPITokens(c) \/ \E id \in ScanId : ControlScan(c, id)
             \/ HandleEngagementPlan(c) \/ HandleDelete(c) \/ HandleWrite(c) \/ HandleDistributedAgent(c)
             \/ \E ask \in Asked, id \in ScanId : DispatchScan(c, ask, id)
             \/ HandleOrganizations(c)
      PROVE  IdentityInv'
  <2>1. \E status \in {"ok", "rejected"}, changed \in BOOLEAN : Respond(c, status, changed)
    BY <1>4 DEF Reject, ReloadAPITokens, ControlScan, HandleEngagementPlan, HandleDelete, HandleWrite, HandleDistributedAgent, Serves, DispatchScan,
                HandleOrganizations
  <2>2. UNCHANGED <<users, sessions>>
    BY <1>4 DEF Reject, ReloadAPITokens, ControlScan, HandleEngagementPlan, HandleDelete, HandleWrite, HandleDistributedAgent, Serves, DispatchScan,
                HandleOrganizations, identityVars
  <2>3. req'[c].st = "respond" /\ \A d \in Slot \ {c} : req'[d] = req[d]
    BY <2>1, RespondLeaves
  <2> QED BY <2>2, <2>3, IdentityFrame
<1>5. ASSUME NEW c \in Slot, HandleUsers(c)
      PROVE  IdentityInv'
  <2>1. PICK row \in User : row.via = "local" /\ users' = Append(users, row)
    <3>1. PICK org \in OrgId, email \in Email, role \in Role :
            users' = Append(users, [org |-> org, email |-> Lower(email), role |-> role, via |-> "local"])
      BY <1>5 DEF HandleUsers, CreateUser
    <3> DEFINE row == [org |-> org, email |-> Lower(email), role |-> role, via |-> "local"]
    <3>2. row \in User /\ row.via = "local"
      BY <3>1 DEF User, Email, Lower
    <3> HIDE DEF row
    <3> QED BY <3>1, <3>2 DEF row
  <2>2. UNCHANGED sessions /\ Respond(c, "ok", TRUE)
    BY <1>5 DEF HandleUsers
  <2>3. OneUserPerClaim' /\ SessionOfUser'
    BY <2>1, <2>2, UsersGrow
  <2>4. req'[c].st = "respond" /\ \A d \in Slot \ {c} : req'[d] = req[d]
    BY <2>2, RespondLeaves
  <2>5. DOMAIN users \subseteq DOMAIN users' /\ \A u \in DOMAIN users : users'[u] = users[u]
    BY <1>0, <2>1, Appended
  <2>6. CarriedRight'
    BY <2>4, <2>5 DEF IdentityInv, CarriedRight
  <2> QED BY <2>3, <2>6 DEF IdentityInv
<1>6. ASSUME NEW c \in Slot, FindUser(c)
      PROVE  IdentityInv'
  <2>1. PICK user \in UserCopy : req' = [req EXCEPT ![c] = LoggingIn(req[c], user)] /\ Resolved(user)
    BY <1>6, FindUserStep
  <2>2. req'[c].user = user /\ \A d \in Slot \ {c} : req'[d] = req[d]
    BY <1>0, <2>1 DEF LoggingIn
  <2>3. UNCHANGED sessions
    BY <1>6 DEF FindUser
  <2>4. CASE UNCHANGED <<orgs, users>> /\ \E u \in DOMAIN users : user = Carried(u, users[u].org, users[u].role)
    BY <2>2, <2>3, <2>4 DEF IdentityInv, OneUserPerClaim, SessionOfUser, CarriedRight, Carried
  <2>5. ASSUME NEW row \in User, users' = Append(users, row), row.via # "local",
               \A u \in DOMAIN users : ~(users[u].email = row.email /\ users[u].org = row.org),
               user = Carried(Len(users) + 1, row.org, row.role)
        PROVE  IdentityInv'
    <3>1. OneUserPerClaim' /\ SessionOfUser'
      BY <2>3, <2>5, UsersGrow
    <3>2. /\ \A u \in DOMAIN users : u \in DOMAIN users' /\ users'[u] = users[u]
          /\ Len(users) + 1 \in DOMAIN users' /\ users'[Len(users) + 1] = row
      BY <1>0, <2>5, Appended
    <3>3. CarriedRight'
      BY <2>2, <2>5, <3>2 DEF IdentityInv, CarriedRight, Carried
    <3> QED BY <3>1, <3>3 DEF IdentityInv
  <2> QED BY <2>1, <2>4, <2>5 DEF Resolved
<1>7. ASSUME NEW c \in Slot, Login(c)
      PROVE  IdentityInv'
  <2> DEFINE u == req[c].user
             row == [user |-> u.id, org |-> u.org, role |-> u.role, revoked |-> FALSE]
  <2>1. sessions' = Append(sessions, row) /\ UNCHANGED users /\ req[c].st = "login" /\ Respond(c, "ok", TRUE)
    BY <1>7 DEF Login, CreateSession
  <2>2. row \in Session
    BY <1>7 DEF Login, TypeInv, PhasesOK, PhaseOK, UserCopy, Session
  <2>3. req'[c].st = "respond" /\ \A d \in Slot \ {c} : req'[d] = req[d]
    BY <2>1, RespondLeaves
  <2>4. row.user \in DOMAIN users /\ row.org = users[row.user].org /\ row.role = users[row.user].role
    BY <2>1 DEF IdentityInv, CarriedRight
  <2> HIDE DEF row
  <2>5. /\ Len(sessions) \in Nat /\ DOMAIN sessions = 1..Len(sessions) /\ DOMAIN sessions' = 1..(Len(sessions) + 1)
        /\ \A i \in DOMAIN sessions : sessions'[i] = sessions[i]
        /\ sessions'[Len(sessions) + 1] = row
    BY <1>0, <2>1, <2>2, Appended
  <2>6. SessionOfUser'
    BY <2>1, <2>4, <2>5 DEF IdentityInv, SessionOfUser
  <2>7. OneUserPerClaim' /\ CarriedRight'
    BY <2>1, <2>3 DEF IdentityInv, OneUserPerClaim, CarriedRight
  <2> QED BY <2>6, <2>7 DEF IdentityInv
<1>8. ASSUME NEW c \in Slot, Logout(c)
      PROVE  IdentityInv'
  <2>1. PICK s \in DOMAIN sessions : sessions' = [sessions EXCEPT ![s] = [sessions[s] EXCEPT !.revoked = TRUE]]
    BY <1>8 DEF Logout, RevokeSession
  <2>2. UNCHANGED users /\ Respond(c, "ok", TRUE)
    BY <1>8 DEF Logout
  <2>3. req'[c].st = "respond" /\ \A d \in Slot \ {c} : req'[d] = req[d]
    BY <2>2, RespondLeaves
  <2>4. sessions[s] \in Session
    BY <1>0, <2>1, LenProperties, ElementOfSeq
  <2>5. LET r == [sessions[s] EXCEPT !.revoked = TRUE]
        IN  r.user = sessions[s].user /\ r.org = sessions[s].org /\ r.role = sessions[s].role
    BY <2>4 DEF Session
  <2>6. /\ DOMAIN sessions' = DOMAIN sessions
        /\ \A t \in DOMAIN sessions : /\ sessions'[t].user = sessions[t].user
                                      /\ sessions'[t].org = sessions[t].org /\ sessions'[t].role = sessions[t].role
    BY <2>1, <2>5
  <2>7. SessionOfUser'
    BY <2>2, <2>6 DEF IdentityInv, SessionOfUser
  <2>8. OneUserPerClaim' /\ CarriedRight'
    BY <2>2, <2>3 DEF IdentityInv, OneUserPerClaim, CarriedRight
  <2> QED BY <2>7, <2>8 DEF IdentityInv
<1> QED BY <1>2, <1>3, <1>4, <1>5, <1>6, <1>7, <1>8, SentAssumption DEF Next, Serve

\* However logins, sign-ons and the creation of users interleave, sign-on provisions
\* at most one user for an address and tenant, and every session carries the tenant
\* and role of its stored user (ValidateOIDCClaims, ValidateSAMLAssertion,
\* CreateSession): for any number of connections, requests, users and tenants.
THEOREM IdentityTheorem == Spec => []IdentitySound
<1>1. Init => TypeInv /\ IdentityInv
  BY TypeInit, IdentityInitially
<1>2. TypeInv /\ IdentityInv /\ [Next]_vars => TypeInv' /\ IdentityInv'
  BY TypeStep, IdentityStep
<1>3. TypeInv /\ IdentityInv => IdentitySound
  BY TypeInvTypeOK DEF IdentityInv, IdentitySound, TypeOK
<1> QED BY <1>1, <1>2, <1>3, PTL DEF Spec

----------------------------------------------------------------------------
(***************************************************************************)
(* The event stream.  What a subscriber has heard or will hear, received   *)
(* and buffered events together, is in order and never ahead of the scans. *)
(***************************************************************************)

Heard(c) == chan[c].got \o chan[c].buf

InOrder(seen) ==
  \A i, j \in DOMAIN seen :
    i < j /\ seen[i].run = seen[j].run /\ seen[i].run # 0 => Stage(seen[i].type) < Stage(seen[j].type)

\* How far a scan in a state has got, in the stages of its events.
RunStage(st) == CASE st = "launched" -> 1 [] st \in {"started", "running"} -> 2 [] OTHER -> 3

\* An event of a dispatch carries its identifier and is not ahead of it.
Follows(ev, list) ==
  ev.run # 0 =>
    /\ ev.run \in DOMAIN list
    /\ list[ev.run].id = ev.scan /\ list[ev.run].from = "server"
    /\ Stage(ev.type) <= RunStage(list[ev.run].st)

NotAhead(seen) == \A i \in DOMAIN seen : Follows(seen[i], runs)

StreamInv == NoSendOnClosed /\ \A c \in Slot : InOrder(Heard(c)) /\ NotAhead(Heard(c))

\* An event in the buffer is at the end of what is heard, and taking the first
\* one out of it changes nothing.
LEMMA HeardSteps ==
  ASSUME NEW got \in Seq(EventRow), NEW buf \in Seq(EventRow)
  PROVE  /\ got \o buf \in Seq(EventRow)
         /\ \A ev \in EventRow : got \o Append(buf, ev) = Append(got \o buf, ev)
         /\ buf # <<>> => Append(got, Head(buf)) \o Tail(buf) = got \o buf
<1>1. got \o buf \in Seq(EventRow)
  BY ConcatProperties
<1>2. ASSUME NEW ev \in EventRow PROVE got \o Append(buf, ev) = Append(got \o buf, ev)
  <2>1. <<ev>> \in Seq(EventRow)
    OBVIOUS
  <2>2. Append(buf, ev) = buf \o <<ev>> /\ Append(got \o buf, ev) = (got \o buf) \o <<ev>>
    BY <1>1, AppendIsConcat
  <2>3. (got \o buf) \o <<ev>> = got \o (buf \o <<ev>>)
    BY <2>1, ConcatAssociative
  <2> QED BY <2>2, <2>3
<1>3. ASSUME buf # <<>> PROVE Append(got, Head(buf)) \o Tail(buf) = got \o buf
  <2> DEFINE h == Head(buf)
             t == Tail(buf)
  <2>1. h \in EventRow /\ t \in Seq(EventRow)
    BY <1>3, HeadTailProperties
  <2>2. buf = <<h>> \o t
    <3>1. Len(buf) \in Nat /\ Len(buf) # 0 /\ Len(t) = Len(buf) - 1 /\ h = buf[1]
          /\ \A i \in 1..Len(t) : t[i] = buf[i + 1]
      BY <1>3, HeadTailProperties, EmptySeq, LenProperties
    <3>2. <<h>> \in Seq(EventRow) /\ Len(<<h>>) = 1 /\ <<h>>[1] = h
      BY <2>1
    <3> HIDE DEF h, t
    <3>3. /\ <<h>> \o t \in Seq(EventRow) /\ Len(<<h>> \o t) = 1 + Len(t)
          /\ \A i \in 1..(1 + Len(t)) : (<<h>> \o t)[i] = IF i <= 1 THEN <<h>>[i] ELSE t[i - 1]
      BY <2>1, <3>2, ConcatProperties
    <3>4. \A i \in 1..Len(buf) : (<<h>> \o t)[i] = buf[i]
      <4> SUFFICES ASSUME NEW i \in 1..Len(buf) PROVE (<<h>> \o t)[i] = buf[i]
        OBVIOUS
      <4>1. CASE i = 1
        BY <3>1, <3>2, <3>3, <4>1
      <4>2. CASE i # 1
        <5>1. i - 1 \in 1..Len(t) /\ i \in 1..(1 + Len(t)) /\ ~(i <= 1)
          BY <3>1, <4>2
        <5>2. (<<h>> \o t)[i] = t[i - 1]
          BY <3>3, <5>1
        <5>3. t[i - 1] = buf[i]
          BY <3>1, <5>1
        <5> QED BY <5>2, <5>3
      <4> QED BY <4>1, <4>2
    <3>5. Len(<<h>> \o t) = Len(buf)
      BY <3>1, <3>3
    <3> QED BY <3>3, <3>4, <3>5, SeqEqual
  <2>3. <<h>> \in Seq(EventRow) /\ Append(got, h) = got \o <<h>>
    BY <2>1, AppendIsConcat
  <2> HIDE DEF h, t
  <2>4. (got \o <<h>>) \o t = got \o (<<h>> \o t)
    BY <2>1, <2>3, ConcatAssociative
  <2>5. Append(got, h) \o t = got \o buf
    BY <2>2, <2>3, <2>4
  <2> QED BY <2>5 DEF h, t
<1> QED BY <1>1, <1>2, <1>3

LEMMA StageNat ==
  /\ \A type : Stage(type) \in Nat
  /\ \A st : RunStage(st) \in Nat
BY DEF Stage, RunStage

\* One more event that is ahead of all the events of its scan.
LEMMA OrderAppended ==
  ASSUME NEW seen \in Seq(EventRow), InOrder(seen), NEW ev \in EventRow,
         \A i \in DOMAIN seen : seen[i].run = ev.run /\ ev.run # 0 => Stage(seen[i].type) < Stage(ev.type)
  PROVE  InOrder(Append(seen, ev))
<1> DEFINE s == Append(seen, ev)
<1>1. /\ Len(seen) \in Nat /\ DOMAIN seen = 1..Len(seen) /\ DOMAIN s = 1..(Len(seen) + 1)
      /\ \A i \in DOMAIN seen : s[i] = seen[i]
      /\ s[Len(seen) + 1] = ev
  BY Appended
<1> HIDE DEF s
<1> SUFFICES ASSUME NEW i \in DOMAIN s, NEW j \in DOMAIN s, i < j, s[i].run = s[j].run, s[i].run # 0
             PROVE  Stage(s[i].type) < Stage(s[j].type)
  BY DEF InOrder, s
<1>2. i \in DOMAIN seen
  BY <1>1
<1>3. CASE j \in DOMAIN seen
  BY <1>1, <1>2, <1>3 DEF InOrder
<1>4. CASE j = Len(seen) + 1
  BY <1>1, <1>2, <1>4
<1> QED BY <1>1, <1>3, <1>4

\* Scans are added and move on, and never go back.
RunsAdvance ==
  \A n \in DOMAIN runs : /\ n \in DOMAIN runs' /\ RunStage(runs[n].st) <= RunStage(runs'[n].st)
                         /\ runs'[n].id = runs[n].id /\ runs'[n].from = runs[n].from

LEMMA NotAheadKept ==
  ASSUME NEW seen, NotAhead(seen), RunsAdvance
  PROVE  \A i \in DOMAIN seen : Follows(seen[i], runs')
BY StageNat DEF NotAhead, Follows, RunsAdvance

\* A broadcast of an event that is new for its scan.
LEMMA StreamBroadcast ==
  ASSUME TypeInv, StreamInv, RunsAdvance, NEW ev \in EventRow, chan' = BroadcastEvent(ev),
         Follows(ev, runs'),
         ev.run # 0 /\ ev.run \in DOMAIN runs => RunStage(runs[ev.run].st) < Stage(ev.type)
  PROVE  StreamInv'
<1>1. \A c \in Slot : \/ chan'[c] = chan[c]
                      \/ chan[c].open /\ chan'[c] = Channel(TRUE, chan[c].closed, Append(chan[c].buf, ev), chan[c].got)
  BY Broadcast DEF TypeInv
<1>2. NoSendOnClosed'
  <2> SUFFICES ASSUME NEW c \in Slot PROVE ~(chan'[c].open /\ chan'[c].closed)
    BY DEF NoSendOnClosed
  <2>1. CASE chan'[c] = chan[c]
    BY <2>1 DEF StreamInv, NoSendOnClosed
  <2>2. CASE chan[c].open /\ chan'[c] = Channel(TRUE, chan[c].closed, Append(chan[c].buf, ev), chan[c].got)
    <3>1. ~chan[c].closed
      BY <2>2 DEF StreamInv, NoSendOnClosed
    <3>2. chan'[c].closed = chan[c].closed
      BY <2>2 DEF Channel
    <3> QED BY <3>1, <3>2
  <2> QED BY <1>1, <2>1, <2>2
<1>3. ASSUME NEW c \in Slot PROVE (InOrder(Heard(c)) /\ NotAhead(Heard(c)))'
  <2> DEFINE s == Heard(c)
  <2>1. chan[c].got \in Seq(EventRow) /\ chan[c].buf \in Seq(EventRow)
    BY DEF TypeInv, ChannelsOK, ChannelRow
  <2>2. s \in Seq(EventRow) /\ InOrder(s) /\ NotAhead(s)
    BY <2>1, HeardSteps DEF Heard, StreamInv
  <2>3. Heard(c)' = s \/ Heard(c)' = Append(s, ev)
    <3>1. CASE chan'[c] = chan[c]
      BY <3>1 DEF Heard
    <3>2. CASE chan'[c] = Channel(TRUE, chan[c].closed, Append(chan[c].buf, ev), chan[c].got)
      <4>1. chan'[c].got = chan[c].got /\ chan'[c].buf = Append(chan[c].buf, ev)
        BY <3>2 DEF Channel
      <4>2. chan[c].got \o Append(chan[c].buf, ev) = Append(chan[c].got \o chan[c].buf, ev)
        BY <2>1, HeardSteps
      <4>3. Heard(c)' = chan[c].got \o Append(chan[c].buf, ev)
        BY <4>1 DEF Heard
      <4> QED BY <4>2, <4>3 DEF Heard
    <3> QED BY <1>1, <3>1, <3>2
  <2> HIDE DEF s
  <2>4. \A i \in DOMAIN s : Follows(s[i], runs')
    BY <2>2, NotAheadKept
  <2>5. CASE Heard(c)' = s
    BY <2>2, <2>4, <2>5 DEF InOrder, NotAhead, Follows
  <2>6. CASE Heard(c)' = Append(s, ev)
    <3>1. \A i \in DOMAIN s : s[i].run = ev.run /\ ev.run # 0 => Stage(s[i].type) < Stage(ev.type)
      BY <2>2, StageNat DEF NotAhead, Follows
    <3>2. InOrder(Append(s, ev))
      BY <2>2, <3>1, OrderAppended
    <3> DEFINE t == Append(s, ev)
    <3>3. /\ DOMAIN s = 1..Len(s) /\ Len(s) \in Nat /\ DOMAIN t = 1..(Len(s) + 1)
          /\ \A i \in DOMAIN s : t[i] = s[i]
          /\ t[Len(s) + 1] = ev
      BY <2>2, Appended
    <3> HIDE DEF t
    <3>4. \A i \in DOMAIN t : Follows(t[i], runs')
      BY <2>4, <3>3
    <3>5. Heard(c)' = t /\ InOrder(t)
      BY <2>6, <3>2 DEF t
    <3>6. InOrder(Heard(c)')
      BY <3>5
    <3>7. InOrder(Heard(c))'
      BY <3>6 DEF InOrder
    <3>8. NotAhead(Heard(c))'
      BY <3>4, <3>5 DEF NotAhead, Follows
    <3> QED BY <3>7, <3>8
  <2> QED BY <2>3, <2>5, <2>6
<1> QED BY <1>2, <1>3 DEF StreamInv

\* The channels stay as they are.
LEMMA StreamFrame ==
  ASSUME StreamInv, RunsAdvance, UNCHANGED chan
  PROVE  StreamInv'
<1>1. NoSendOnClosed'
  BY DEF StreamInv, NoSendOnClosed
<1>2. ASSUME NEW c \in Slot PROVE (InOrder(Heard(c)) /\ NotAhead(Heard(c)))'
  <2> DEFINE s == Heard(c)
  <2>1. Heard(c)' = s
    BY DEF Heard
  <2>2. InOrder(s) /\ NotAhead(s)
    BY DEF StreamInv
  <2> HIDE DEF s
  <2>3. \A i \in DOMAIN s : Follows(s[i], runs')
    BY <2>2, NotAheadKept
  <2>4. InOrder(Heard(c)')
    BY <2>1, <2>2
  <2>5. InOrder(Heard(c))'
    BY <2>4 DEF InOrder
  <2>6. NotAhead(Heard(c))'
    BY <2>1, <2>3 DEF NotAhead, Follows
  <2> QED BY <2>5, <2>6
<1> QED BY <1>1, <1>2 DEF StreamInv

\* One channel is replaced by a row that has heard the same, or nothing.
LEMMA StreamWritten ==
  ASSUME TypeInv, StreamInv, UNCHANGED runs, NEW c \in Slot, NEW row, chan' = [chan EXCEPT ![c] = row],
         ~(row.open /\ row.closed),
         row.got \o row.buf \in {<<>>, Heard(c)}
  PROVE  StreamInv'
<1>1. chan'[c] = row /\ \A d \in Slot \ {c} : chan'[d] = chan[d]
  BY DEF TypeInv, ChannelsOK
<1>2. NoSendOnClosed'
  BY <1>1 DEF StreamInv, NoSendOnClosed
<1>3. ASSUME NEW d \in Slot PROVE (InOrder(Heard(d)) /\ NotAhead(Heard(d)))'
  <2>1. Heard(d)' = Heard(d) \/ Heard(d)' = <<>>
    BY <1>1 DEF Heard
  <2>2. CASE Heard(d)' = <<>>
    BY <2>2 DEF InOrder, NotAhead
  <2>3. CASE Heard(d)' = Heard(d)
    <3> DEFINE s == Heard(d)
    <3>1. InOrder(s) /\ NotAhead(s) /\ Heard(d)' = s
      BY <2>3 DEF StreamInv
    <3> HIDE DEF s
    <3>2. InOrder(Heard(d)')
      BY <3>1
    <3>3. InOrder(Heard(d))'
      BY <3>2 DEF InOrder
    <3>4. NotAhead(Heard(d))'
      BY <3>1 DEF NotAhead, Follows
    <3> QED BY <3>3, <3>4
  <2> QED BY <2>1, <2>2, <2>3
<1> QED BY <1>2, <1>3 DEF StreamInv

LEMMA StreamInitially == Init => StreamInv
<1> SUFFICES ASSUME Init PROVE StreamInv
  OBVIOUS
<1>1. \A c \in Slot : chan[c] = Channel(FALSE, FALSE, <<>>, <<>>)
  BY DEF Init, NoChannel
<1>2. \A c \in Slot : ~chan[c].open /\ chan[c].got = <<>> /\ chan[c].buf = <<>>
  BY <1>1 DEF Channel
<1>3. <<>> \o <<>> = <<>>
  BY EmptySeq, ConcatEmptySeq
<1>4. \A c \in Slot : Heard(c) = <<>>
  BY <1>2, <1>3 DEF Heard
<1> QED BY <1>2, <1>4 DEF StreamInv, NoSendOnClosed, InOrder, NotAhead

\* The goroutine of a scan: each event it broadcasts is the next of its scan.
LEMMA StreamScan ==
  ASSUME TypeInv, StreamInv, NEW n \in DOMAIN runs, RunGoroutine(n) \/ StartEngine(n) \/ FinishRun(n)
  PROVE  StreamInv'
<1>0. RunsOK /\ n \in Nat /\ n # 0 /\ runs[n].id \in ScanId /\ RunRow(runs[n])
  <2>1. PICK S : runs \in Seq(S)
    BY DEF TypeInv, RunsOK
  <2> QED BY <2>1, LenProperties DEF TypeInv, RunsOK, RunRow
<1>1. ASSUME NEW st \in RunStates, runs' = [runs EXCEPT ![n].st = st], RunStage(runs[n].st) <= RunStage(st),
             runs[n].from = "command" => st \in {"running", "ended"}
      PROVE  /\ RunsAdvance /\ runs'[n].st = st /\ n \in DOMAIN runs'
             /\ runs'[n].id = runs[n].id /\ runs'[n].from = runs[n].from
  <2>1. /\ DOMAIN runs' = DOMAIN runs
        /\ runs'[n] = Run(runs[n].id, runs[n].cfg, runs[n].file, runs[n].from, st)
        /\ \A m \in DOMAIN runs \ {n} : runs'[m] = runs[m]
    BY <1>0, <1>1, RunMoved
  <2>2. runs'[n].st = st /\ runs'[n].id = runs[n].id /\ runs'[n].from = runs[n].from
    BY <2>1 DEF Run
  <2> QED BY <1>1, <2>1, <2>2, StageNat DEF RunsAdvance
<1>2. \A type \in {"engine.started", "scan.completed", "scan.failed"} :
        LET ev == Event(n, runs[n].id, type) IN
        ev \in EventRow /\ ev.run = n /\ ev.type = type /\ ev.scan = runs[n].id
  BY <1>0 DEF Event, EventRow
<1>3. /\ RunStage("launched") = 1 /\ RunStage("started") = 2 /\ RunStage("running") = 2 /\ RunStage("ended") = 3
      /\ Stage("engine.started") = 2 /\ Stage("scan.completed") = 3 /\ Stage("scan.failed") = 3
  BY DEF RunStage, Stage
<1>4. CASE RunGoroutine(n)
  <2>1. /\ runs[n].st = "launched" /\ runs' = [runs EXCEPT ![n].st = "started"]
        /\ chan' = BroadcastEvent(Event(n, runs[n].id, "engine.started"))
        /\ runs[n].from = "server"
    BY <1>0, <1>4 DEF RunGoroutine, RunRow
  <2>2. /\ RunsAdvance /\ runs'[n].st = "started" /\ n \in DOMAIN runs'
        /\ runs'[n].id = runs[n].id /\ runs'[n].from = "server"
    <3>1. "started" \in RunStates /\ RunStage(runs[n].st) <= RunStage("started")
      BY <1>3, <2>1 DEF RunStates
    <3> QED BY <1>1, <2>1, <3>1
  <2> DEFINE ev == Event(n, runs[n].id, "engine.started")
  <2>3. ev \in EventRow /\ ev.run = n /\ ev.type = "engine.started" /\ ev.scan = runs[n].id
    BY <1>2
  <2> HIDE DEF ev
  <2>4. chan' = BroadcastEvent(ev)
    BY <2>1 DEF ev
  <2>5. Follows(ev, runs') /\ RunStage(runs[n].st) < Stage(ev.type)
    BY <1>3, <2>1, <2>2, <2>3 DEF Follows
  <2> QED BY <2>2, <2>3, <2>4, <2>5, StreamBroadcast
<1>5. ASSUME NEW type \in {"scan.completed", "scan.failed"}, runs[n].st \in {"started", "running"},
             runs[n].from # "command",
             runs' = [runs EXCEPT ![n].st = "ended"], chan' = BroadcastEvent(Event(n, runs[n].id, type))
      PROVE  StreamInv'
  <2>1. /\ RunsAdvance /\ runs'[n].st = "ended" /\ n \in DOMAIN runs'
        /\ runs'[n].id = runs[n].id /\ runs'[n].from = runs[n].from
    <3>1. "ended" \in RunStates /\ RunStage(runs[n].st) <= RunStage("ended")
      BY <1>3, <1>5 DEF RunStates
    <3> QED BY <1>1, <1>5, <3>1
  <2>f. runs[n].from = "server"
    BY <1>0, <1>5 DEF RunRow
  <2> DEFINE ev == Event(n, runs[n].id, type)
  <2>2. ev \in EventRow /\ ev.run = n /\ ev.type = type /\ ev.scan = runs[n].id
    BY <1>2
  <2> HIDE DEF ev
  <2>3. chan' = BroadcastEvent(ev)
    BY <1>5 DEF ev
  <2>4. Follows(ev, runs') /\ RunStage(runs[n].st) < Stage(ev.type)
    BY <1>3, <1>5, <2>f, <2>1, <2>2 DEF Follows
  <2> QED BY <2>1, <2>2, <2>3, <2>4, StreamBroadcast
<1>6. ASSUME NEW st \in {"running", "ended"}, runs[n].st \in {"started", "running"},
             runs' = [runs EXCEPT ![n].st = st], UNCHANGED chan
      PROVE  StreamInv'
  <2>1. RunsAdvance
    <3>1. st \in RunStates /\ RunStage(runs[n].st) <= RunStage(st)
      BY <1>3, <1>6 DEF RunStates
    <3> QED BY <1>1, <1>6, <3>1
  <2> QED BY <1>6, <2>1, StreamFrame
<1>7. CASE StartEngine(n)
  <2>1. runs[n].from # "command"
    BY <1>0, <1>7 DEF StartEngine, RunRow
  <2> QED BY <1>5, <1>6, <1>7, <2>1 DEF StartEngine
<1>8. CASE FinishRun(n)
  BY <1>5, <1>6, <1>8 DEF FinishRun
<1> QED BY <1>4, <1>7, <1>8

\* A scan is added: no event names it yet.
LEMMA RunsGrow ==
  ASSUME TypeInv, Len(runs) < MaxRuns, NEW id \in ScanId, NEW config, NEW f,
         NEW from \in {"command", "server"}, NEW st \in RunStates, from = "command" => st \in {"running", "ended"},
         runs' = Append(runs, Run(id, config, f, from, st))
  PROVE  /\ RunsAdvance
         /\ Len(runs) + 1 \in DOMAIN runs' /\ Len(runs) + 1 \notin DOMAIN runs
         /\ runs'[Len(runs) + 1].st = st /\ Len(runs) \in Nat
         /\ runs'[Len(runs) + 1].id = id /\ runs'[Len(runs) + 1].from = from
<1>1. /\ Len(runs) \in Nat
      /\ DOMAIN runs = 1..Len(runs) /\ DOMAIN runs' = 1..(Len(runs) + 1)
      /\ \A n \in DOMAIN runs : runs'[n] = runs[n]
      /\ runs'[Len(runs) + 1] = Run(id, config, f, from, st)
  BY RunAdded DEF TypeInv
<1>2. RunsAdvance
  BY <1>1, StageNat DEF RunsAdvance
<1> QED BY <1>1, <1>2 DEF Run

LEMMA StreamStep == TypeInv /\ StreamInv /\ [Next]_vars => StreamInv'
<1> SUFFICES ASSUME TypeInv, StreamInv, [Next]_vars PROVE StreamInv'
  OBVIOUS
<1>0. UNCHANGED runs => RunsAdvance
  BY StageNat DEF RunsAdvance
<1>1. CASE UNCHANGED <<runs, chan>>
  BY <1>0, <1>1, StreamFrame
<1>2. CASE UNCHANGED vars \/ Configure
  <2>1. ASSUME NEW id \in ScanId, RunCommand(id) PROVE StreamInv'
    <3> DEFINE st == IF EngineAccepts(Load(file)) THEN "running" ELSE "ended"
    <3>1. /\ UNCHANGED chan /\ Len(runs) < MaxRuns
          /\ runs' = Append(runs, Run(id, Load(file), file, "command", st))
      BY <2>1 DEF RunCommand
    <3>2. st \in RunStates /\ st \in {"running", "ended"}
      BY DEF RunStates
    <3> HIDE DEF st
    <3>3. RunsAdvance
      BY <3>1, <3>2, RunsGrow
    <3> QED BY <3>1, <3>3, StreamFrame
  <2> QED BY <1>1, <1>2, <2>1 DEF vars, Configure, RunEngagementWizard, WriteFile, EditFile, StartServer
<1>3. ASSUME NEW n \in DOMAIN runs, RunGoroutine(n) \/ StartEngine(n) \/ FinishRun(n)
      PROVE  StreamInv'
  BY <1>3, StreamScan
<1>4. ASSUME NEW c \in Slot
      PROVE  /\ ReceiveEvent(c) => StreamInv'
             /\ Unsubscribe(c) => StreamInv'
             /\ CloseChannel(c) => StreamInv'
  <2>0. /\ ChannelsOK /\ chan[c].got \in Seq(EventRow) /\ chan[c].buf \in Seq(EventRow)
        /\ chan[c].open \in BOOLEAN /\ chan[c].closed \in BOOLEAN /\ ~(chan[c].open /\ chan[c].closed)
    BY DEF TypeInv, ChannelsOK, ChannelRow, StreamInv, NoSendOnClosed
  <2>1. ASSUME ReceiveEvent(c) PROVE StreamInv'
    <3> DEFINE row == Channel(chan[c].open, chan[c].closed, Tail(chan[c].buf), Append(chan[c].got, Head(chan[c].buf)))
    <3>1. chan' = [chan EXCEPT ![c] = row] /\ chan[c].buf # <<>>
      BY <2>0, <2>1, ChannelSteps
    <3>2. row.got \o row.buf = Heard(c)
      BY <2>0, <3>1, HeardSteps DEF Channel, Heard
    <3>3. ~(row.open /\ row.closed)
      BY <2>0 DEF Channel
    <3>4. UNCHANGED runs
      BY <2>1 DEF ReceiveEvent
    <3> HIDE DEF row
    <3> QED BY <3>1, <3>2, <3>3, <3>4, StreamWritten
  <2>2. ASSUME Unsubscribe(c) PROVE StreamInv'
    <3> DEFINE row == Channel(FALSE, chan[c].closed, chan[c].buf, chan[c].got)
    <3>1. chan' = [chan EXCEPT ![c] = row] /\ UNCHANGED runs
      BY <2>2 DEF Unsubscribe
    <3>2. ~(row.open /\ row.closed) /\ row.got \o row.buf = Heard(c)
      BY DEF Channel, Heard
    <3> HIDE DEF row
    <3> QED BY <3>1, <3>2, StreamWritten
  <2>3. ASSUME CloseChannel(c) PROVE StreamInv'
    <3> DEFINE row == Channel(FALSE, TRUE, chan[c].buf, chan[c].got)
    <3>1. chan' = [chan EXCEPT ![c] = row] /\ UNCHANGED runs
      BY <2>3 DEF CloseChannel
    <3>2. ~(row.open /\ row.closed) /\ row.got \o row.buf = Heard(c)
      BY DEF Channel, Heard
    <3> HIDE DEF row
    <3> QED BY <3>1, <3>2, StreamWritten
  <2> QED BY <2>1, <2>2, <2>3
<1>5. ASSUME NEW c \in Slot,
             \/ \E kind \in Kind, method \in Method, token \in Token \cup {NoToken} : Authenticate(c, kind, method, token)
             \/ \E token \in Token \cup {NoToken} : OpenStream(c, token)
      PROVE  StreamInv'
  <2>1. PICK open \in BOOLEAN : chan' = [chan EXCEPT ![c] = Channel(open, FALSE, <<>>, <<>>)]
    BY <1>5 DEF Authenticate, OpenStream, Subscribe, NoChannel
  <2> DEFINE row == Channel(open, FALSE, <<>>, <<>>)
  <2>2. <<>> \o <<>> = <<>>
    BY EmptySeq, ConcatEmptySeq
  <2>3. ~row.closed /\ row.got \o row.buf = <<>>
    BY <2>2 DEF Channel
  <2>4. UNCHANGED runs
    BY <1>5 DEF Authenticate, OpenStream, Subscribe
  <2> HIDE DEF row
  <2>5. chan' = [chan EXCEPT ![c] = row]
    BY <2>1 DEF row
  <2> QED BY <2>3, <2>4, <2>5, StreamWritten
<1>6. ASSUME NEW c \in Slot, NEW id \in ScanId, ControlScan(c, id)
      PROVE  StreamInv'
  <2> DEFINE ev == Event(0, id, "scan.control")
  <2>1. ev \in EventRow /\ ev.run = 0
    BY DEF Event, EventRow
  <2>2. UNCHANGED runs /\ chan' = BroadcastEvent(ev)
    BY <1>6 DEF ControlScan
  <2> HIDE DEF ev
  <2>3. Follows(ev, runs')
    BY <2>1 DEF Follows
  <2> QED BY <1>0, <2>1, <2>2, <2>3, StreamBroadcast
<1>7. ASSUME NEW c \in Slot, NEW ask \in Asked, NEW id \in ScanId, DispatchScan(c, ask, id)
      PROVE  StreamInv'
  <2>1. CASE RequestedConfig(ask) = NoConfig
    BY <1>1, <1>7, <2>1 DEF DispatchScan
  <2>2. CASE RequestedConfig(ask) # NoConfig
    <3> DEFINE n == Len(runs) + 1
               ev == Event(n, id, "scan.dispatched")
    <3>1. /\ Len(runs) < MaxRuns
          /\ runs' = Append(runs, Run(id, RequestedConfig(ask), loaded, "server", "launched"))
          /\ chan' = BroadcastEvent(ev)
      BY <1>7, <2>2 DEF DispatchScan
    <3>2. /\ RunsAdvance /\ n \in DOMAIN runs' /\ n \notin DOMAIN runs /\ runs'[n].st = "launched" /\ Len(runs) \in Nat
          /\ runs'[n].id = id /\ runs'[n].from = "server"
      BY <3>1, RunsGrow DEF RunStates
    <3>3. ev \in EventRow /\ ev.run = n /\ ev.scan = id /\ Stage(ev.type) = 1 /\ RunStage("launched") = 1
      BY <3>2 DEF Event, EventRow, Stage, RunStage
    <3> HIDE DEF ev, n
    <3>4. Follows(ev, runs')
      BY <3>2, <3>3 DEF Follows
    <3> QED BY <3>1, <3>2, <3>3, <3>4, StreamBroadcast
  <2> QED BY <2>1, <2>2
<1>8. ASSUME NEW c \in Slot,
             \/ Reject(c) \/ ReloadAPITokens(c) \/ HandleEngagementPlan(c) \/ HandleDelete(c) \/ HandleWrite(c) \/ HandleDistributedAgent(c)
             \/ HandleOrganizations(c) \/ HandleUsers(c) \/ FindUser(c) \/ Login(c) \/ Logout(c)
             \/ RecordAPIAudit(c)
      PROVE  StreamInv'
  <2>1. UNCHANGED <<runs, chan>>
    BY <1>8 DEF Reject, ReloadAPITokens, HandleEngagementPlan, HandleDelete, HandleWrite, HandleDistributedAgent, Serves, HandleOrganizations,
                HandleUsers, FindUser, Login, Logout, RecordAPIAudit
  <2> QED BY <1>1, <2>1
<1> QED BY <1>2, <1>3, <1>4, <1>5, <1>6, <1>7, <1>8, SentAssumption DEF Next, Serve

\* What a subscriber sees of a scan that is dispatched once is in order, each stage at
\* most once, although other scans run and are named by clients; a channel never holds more than its capacity and no broadcast meets a closed channel
\* (BroadcastEvent, handleWebSocketEvents, handleRunScan): for any number of
\* connections and scans and any capacity.
THEOREM StreamTheorem == Spec => []StreamSound
<1>1. Init => TypeInv /\ StreamInv
  BY TypeInit, StreamInitially
<1>2. TypeInv /\ StreamInv /\ [Next]_vars => TypeInv' /\ StreamInv'
  BY TypeStep, StreamStep
<1>3. TypeInv /\ StreamInv => StreamSound
  <2> SUFFICES ASSUME TypeInv, StreamInv PROVE StreamInOrder
    BY TypeInvTypeOK DEF StreamInv, StreamSound
  <2> SUFFICES ASSUME NEW c \in Slot, NEW i \in DOMAIN Heard(c), NEW j \in DOMAIN Heard(c),
                      i < j, Heard(c)[i].scan = Heard(c)[j].scan, Alone(Heard(c)[i]),
                      Heard(c)[i].type # "scan.control", Heard(c)[j].type # "scan.control"
               PROVE  Stage(Heard(c)[i].type) < Stage(Heard(c)[j].type)
    BY DEF StreamInOrder, Heard
  <2> DEFINE s == Heard(c)
  <2>1. chan[c].got \in Seq(EventRow) /\ chan[c].buf \in Seq(EventRow)
    BY DEF TypeInv, ChannelsOK, ChannelRow
  <2>2. s \in Seq(EventRow) /\ InOrder(s) /\ NotAhead(s)
    BY <2>1, HeardSteps DEF Heard, StreamInv
  <2> HIDE DEF s
  <2>3. s[i] \in EventRow /\ s[j] \in EventRow /\ i \in DOMAIN s /\ j \in DOMAIN s
    BY <2>2, LenProperties, ElementOfSeq DEF s
  <2>4. s[i].run # 0 /\ s[j].run # 0
    BY <2>3 DEF EventRow, s
  \* Both belong to a dispatch of that identifier, and there is only one.
  <2>5. s[i].run = s[j].run
    <3>1. Follows(s[i], runs) /\ Follows(s[j], runs) /\ s[i].scan = s[j].scan /\ Alone(s[i])
      BY <2>2, <2>3 DEF NotAhead, s
    <3> QED BY <2>4, <3>1 DEF Follows, Alone
  <2> QED BY <2>2, <2>3, <2>4, <2>5 DEF InOrder, s
<1> QED BY <1>1, <1>2, <1>3, PTL DEF Spec

----------------------------------------------------------------------------
(***************************************************************************)
(* Access control.  A server that requires authentication has tokens from  *)
(* its start on, and a reload never leaves it without; so every request    *)
(* past authMiddleware has a role, and what it changes was allowed to that *)
(* role when the handler ran.                                              *)
(***************************************************************************)

Secured == cfg # NoConfig /\ cfg.requireAuth

\* What a role may change.
EffectAllowed(kind, role) ==
  /\ role = "none" => kind = "agent"
  /\ role = "viewer" => kind = "control"
  /\ role = "analyst" => kind \notin {"delete", "logout", "reload", "plan"}

\* Nothing has happened before the server starts.
Quiet == effects = {} /\ \A c \in Slot : req[c].st = "idle"

\* What is known of a request in progress.
RequestVouched(r) ==
  /\ Secured /\ r.st \in {"authenticated", "login"} /\ r.role = "none" => r.kind = "agent"
  /\ r.st = "login" => r.kind \in {"login", "sso"} /\ r.role # "viewer"

AccessInv ==
  /\ cfg = NoConfig => Quiet
  /\ Secured => AuthEnabled
  /\ Secured => \A e \in effects : EffectAllowed(e.kind, e.role)
  /\ \A c \in Slot : RequestVouched(req[c])

\* rbacMiddleware, the method tables and the handlers' own checks together allow a
\* role no more than EffectAllowed says.
LEMMA ServedAllowed ==
  ASSUME TypeInv, NEW c \in Slot, MayServe(c), Secured, req[c].role = "none" => req[c].kind = "agent"
  PROVE  EffectAllowed(req[c].kind, req[c].role)
<1>1. req[c].kind \in Kind /\ req[c].method \in Method /\ req[c].role \in Role \cup {"none"}
  BY DEF TypeInv, RequestsOK, RequestRow
<1>2. ChangesOn["delete"] = {"DELETE"} /\ ChangesOn["logout"] = {"DELETE"}
  BY DEF ChangesOn
<1>3. \A kind \in Kind : kind # "control" => ChangesOn[kind] \subseteq {"POST", "DELETE"}
  BY DEF Kind, ChangesOn
<1>4. req[c].role = "viewer" => req[c].kind = "control"
  BY <1>1, <1>3 DEF MayServe, Authorized
<1>5. req[c].role = "analyst" => req[c].kind \notin {"delete", "logout", "reload", "plan"}
  BY <1>1, <1>2 DEF MayServe, Authorized, AdminOnly, Secured
<1> QED BY <1>4, <1>5 DEF EffectAllowed

\* The end of a handler.
LEMMA AccessRespond ==
  ASSUME TypeInv, AccessInv, NEW c \in Slot, NEW status \in {"ok", "rejected"}, NEW changed \in BOOLEAN,
         Respond(c, status, changed),
         req[c].st \in {"authenticated", "login"},
         Secured /\ changed => EffectAllowed(req[c].kind, req[c].role),
         tokens' = tokens \/ tokens' \in TokenMap
  PROVE  AccessInv'
<1> DEFINE e == [kind |-> req[c].kind, role |-> req[c].role]
<1>1. /\ req'[c] = Responded(req[c], status) /\ \A d \in Slot \ {c} : req'[d] = req[d]
      /\ UNCHANGED cfg
      /\ effects' = IF changed THEN effects \cup {e} ELSE effects
  BY RespondLeaves DEF Respond, serverVars
<1>2. cfg # NoConfig /\ Secured' = Secured
  BY <1>1 DEF AccessInv, Quiet, Secured
<1>3. Secured => AuthEnabled'
  BY DEF AccessInv, AuthEnabled, TokenMap
<1>4. Secured => \A f \in effects' : EffectAllowed(f.kind, f.role)
  <2>1. e.kind = req[c].kind /\ e.role = req[c].role
    OBVIOUS
  <2> HIDE DEF e
  <2> QED BY <1>1, <2>1 DEF AccessInv
<1>6. \A d \in Slot : RequestVouched(req[d])'
  <2> SUFFICES ASSUME NEW d \in Slot PROVE RequestVouched(req[d])'
    OBVIOUS
  <2>1. CASE d # c
    BY <1>1, <1>2, <2>1 DEF AccessInv, RequestVouched
  <2>2. CASE d = c
    <3>1. req'[c].st = "respond"
      BY <1>1 DEF Responded
    <3> QED BY <2>2, <3>1 DEF RequestVouched
  <2> QED BY <2>1, <2>2
<1> QED BY <1>1, <1>2, <1>3, <1>4, <1>6 DEF AccessInv, Secured

\* Steps that leave the tables alone, and requests that get no further.
LEMMA AccessFrame ==
  ASSUME TypeInv, AccessInv, UNCHANGED <<cfg, tokens, effects>>,
         \A c \in Slot : req'[c] = req[c] \/ req'[c].st \in {"stream", "leaving", "idle"},
         cfg = NoConfig => \A c \in Slot : req'[c].st = "idle"
  PROVE  AccessInv'
<1>1. Secured' = Secured /\ AuthEnabled' = AuthEnabled
  BY DEF Secured, AuthEnabled
<1>2. \A c \in Slot : RequestVouched(req[c])'
  BY <1>1 DEF AccessInv, RequestVouched
<1> QED BY <1>1, <1>2 DEF AccessInv, Quiet

LEMMA AccessInitially == Init => AccessInv
BY DEF Init, AccessInv, Quiet, Secured, RequestVouched, Idle, Request

\* The server's start with the tokens of the environment.
LEMMA AccessStart ==
  ASSUME TypeInv, AccessInv, StartServer
  PROVE  AccessInv'
<1>1. Quiet /\ UNCHANGED <<req, effects>> /\ cfg' = Load(file) /\ Load(file) # NoConfig
  BY DEF StartServer, AccessInv
<1>2. Secured' => AuthEnabled'
  BY DEF StartServer, Secured, AuthEnabled, TokenMap
<1>3. \A c \in Slot : req'[c].st = "idle"
  BY <1>1 DEF Quiet
<1>4. \A c \in Slot : RequestVouched(req[c])'
  BY <1>3 DEF RequestVouched
<1> QED BY <1>1, <1>2, <1>4 DEF AccessInv, Quiet

LEMMA AccessStep == TypeInv /\ AccessInv /\ [Next]_vars => AccessInv'
<1> SUFFICES ASSUME TypeInv, AccessInv, [Next]_vars PROVE AccessInv'
  OBVIOUS
<1>0. DOMAIN req = Slot
  BY DEF TypeInv, RequestsOK
<1>1. CASE UNCHANGED <<cfg, tokens, req, effects>>
  BY <1>1, AccessFrame DEF AccessInv, Quiet
<1>2. CASE UNCHANGED vars \/ Configure \/ \E n \in DOMAIN runs : RunGoroutine(n) \/ StartEngine(n) \/ FinishRun(n)
  <2>1. CASE StartServer
    BY <2>1, AccessStart
  <2> QED BY <1>1, <1>2, <2>1 DEF vars, serverVars, apiVars, Configure, RunEngagementWizard, WriteFile, EditFile, RunCommand,
     RunGoroutine, StartEngine, FinishRun
<1>3. ASSUME NEW c \in Slot, NEW kind \in Kind, NEW method \in Method, NEW token \in Token \cup {NoToken},
             Authenticate(c, kind, method, token)
      PROVE  AccessInv'
  <2>1. UNCHANGED <<cfg, tokens, effects>> /\ cfg # NoConfig
    BY <1>3 DEF Authenticate, serverVars
  <2>2. CASE UNCHANGED req
    BY <1>1, <2>1, <2>2
  <2>3. CASE ~(AuthEnabled /\ ~Exempt(kind) /\ PrincipalForToken(token) = "none")
    <3> DEFINE r == Request("authenticated", kind, method, Principal(kind, token))
    <3>1. /\ req' = [req EXCEPT ![c] = r] /\ r.st = "authenticated"
          /\ r.role = Principal(kind, token) /\ r.kind = kind
      BY <1>3, <2>3 DEF Authenticate, Request
    <3>2. Secured' = Secured /\ AuthEnabled' = AuthEnabled
      BY <2>1 DEF Secured, AuthEnabled
    <3>3. Secured /\ r.role = "none" => r.kind = "agent"
      BY <2>3, <3>1 DEF AccessInv, Principal, Exempt
    <3> HIDE DEF r
    <3>4. \A d \in Slot : RequestVouched(req[d])'
      BY <1>0, <2>1, <3>1, <3>2, <3>3 DEF AccessInv, RequestVouched
    <3> QED BY <2>1, <3>2, <3>4 DEF AccessInv
  <2> QED BY <1>3, <2>2, <2>3 DEF Authenticate
<1>4. ASSUME NEW c \in Slot,
             \/ \E token \in Token \cup {NoToken} : OpenStream(c, token)
             \/ ReceiveEvent(c) \/ Unsubscribe(c) \/ CloseChannel(c)
      PROVE  AccessInv'
  <2>1. /\ \A d \in Slot \ {c} : req'[d] = req[d]
        /\ req'[c] = req[c] \/ req'[c].st \in {"stream", "leaving", "idle"}
    <3>1. ASSUME NEW token \in Token \cup {NoToken}, OpenStream(c, token)
          PROVE  \E r : r.st = "stream" /\ req' = [req EXCEPT ![c] = r]
      BY <3>1 DEF OpenStream, Request
    <3>2. ReceiveEvent(c) => UNCHANGED req
      BY DEF ReceiveEvent, apiVars
    <3>3. Unsubscribe(c) => \E r : r.st = "leaving" /\ req' = [req EXCEPT ![c] = r]
      <4>1. Unsubscribe(c) => req' = [req EXCEPT ![c] = Leaving(req[c])]
        BY GotoRow DEF Unsubscribe, TypeInv, Leaving
      <4>2. Leaving(req[c]).st = "leaving"
        BY DEF Leaving
      <4> QED BY <4>1, <4>2
    <3>4. CloseChannel(c) => \E r : r.st = "idle" /\ req' = [req EXCEPT ![c] = r]
      BY DEF CloseChannel, Idle, Request
    <3> QED BY <1>0, <1>4, <3>1, <3>2, <3>3, <3>4
  <2>2. UNCHANGED <<cfg, tokens, effects>>
    BY <1>4 DEF OpenStream, Subscribe, ReceiveEvent, Unsubscribe, CloseChannel, serverVars, apiVars
  <2>3. cfg # NoConfig \/ \A d \in Slot : req'[d].st = "idle"
    BY <1>4 DEF OpenStream, ReceiveEvent, Unsubscribe, CloseChannel, AccessInv, Quiet
  <2> QED BY <2>1, <2>2, <2>3, AccessFrame
<1>5. ASSUME NEW c \in Slot, Reject(c)
      PROVE  AccessInv'
  BY <1>5, AccessRespond DEF Reject
<1>6. ASSUME NEW c \in Slot,
             \/ ReloadAPITokens(c) \/ (\E id \in ScanId : ControlScan(c, id)) \/ HandleEngagementPlan(c) \/ HandleDelete(c) \/ HandleWrite(c) \/ HandleDistributedAgent(c)
             \/ HandleOrganizations(c) \/ HandleUsers(c) \/ Logout(c)
             \/ \E ask \in Asked, id \in ScanId : DispatchScan(c, ask, id)
      PROVE  AccessInv'
  <2>1. /\ req[c].st = "authenticated" /\ MayServe(c)
        /\ Respond(c, "ok", TRUE) \/ Respond(c, "rejected", FALSE)
        /\ tokens' = tokens \/ tokens' \in TokenMap
    BY <1>6 DEF ReloadAPITokens, ControlScan, HandleEngagementPlan, HandleDelete, HandleWrite, HandleDistributedAgent, Serves, HandleOrganizations,
                HandleUsers, Logout, DispatchScan
  <2>2. Secured => EffectAllowed(req[c].kind, req[c].role)
    <3>1. Secured /\ req[c].role = "none" => req[c].kind = "agent"
      BY <2>1 DEF AccessInv, RequestVouched
    <3> QED BY <2>1, <3>1, ServedAllowed
  <2> QED BY <2>1, <2>2, AccessRespond
<1>7. ASSUME NEW c \in Slot, FindUser(c)
      PROVE  AccessInv'
  <2>1. PICK user \in UserCopy : req' = [req EXCEPT ![c] = LoggingIn(req[c], user)]
    BY <1>7, FindUserStep
  <2>2. UNCHANGED <<cfg, tokens, effects>> /\ req[c].kind \in {"login", "sso"} /\ MayServe(c) /\ req[c].st = "authenticated"
    BY <1>7 DEF FindUser, serverVars
  <2>3. /\ req'[c].st = "login" /\ req'[c].kind = req[c].kind /\ req'[c].role = req[c].role
        /\ \A d \in Slot \ {c} : req'[d] = req[d]
    BY <1>0, <2>1 DEF LoggingIn
  <2>4. req[c].role # "viewer"
    <3>1. ChangesOn["login"] = {"POST"} /\ ChangesOn["sso"] = {"POST"}
      BY DEF ChangesOn
    <3> QED BY <2>2, <3>1 DEF MayServe, Authorized
  <2>5. Secured' = Secured /\ AuthEnabled' = AuthEnabled /\ cfg # NoConfig
    BY <2>2 DEF Secured, AuthEnabled, AccessInv, Quiet
  <2>6. \A d \in Slot : RequestVouched(req[d])'
    BY <2>2, <2>3, <2>4, <2>5 DEF AccessInv, RequestVouched
  <2> QED BY <2>2, <2>5, <2>6 DEF AccessInv
<1>8. ASSUME NEW c \in Slot, Login(c)
      PROVE  AccessInv'
  <2>1. req[c].st = "login" /\ Respond(c, "ok", TRUE) /\ tokens' = tokens
    BY <1>8 DEF Login
  <2>2. Secured => EffectAllowed(req[c].kind, req[c].role)
    BY <2>1 DEF AccessInv, RequestVouched, EffectAllowed
  <2> QED BY <2>1, <2>2, AccessRespond
<1>9. ASSUME NEW c \in Slot, RecordAPIAudit(c)
      PROVE  AccessInv'
  <2>1. UNCHANGED <<cfg, tokens, effects>> /\ req' = [req EXCEPT ![c] = Idle] /\ req[c].st = "respond"
    BY <1>9 DEF RecordAPIAudit, serverVars
  <2>2. req'[c].st = "idle" /\ \A d \in Slot \ {c} : req'[d] = req[d]
    BY <1>0, <2>1 DEF Idle, Request
  <2>3. cfg # NoConfig
    BY <2>1 DEF AccessInv, Quiet
  <2> QED BY <2>1, <2>2, <2>3, AccessFrame
<1> QED BY <1>2, <1>3, <1>4, <1>5, <1>6, <1>7, <1>8, <1>9, SentAssumption DEF Next, Serve

\* Once the configuration requires authentication no request but that of a signing
\* agent changes anything without a role, a viewer changes nothing but the pause
\* state, and an analyst deletes nothing (authMiddleware, rbacMiddleware,
\* handleReloadAPITokens): however many requests are in flight while tokens are
\* reloaded.
THEOREM AccessTheorem == Spec => []RolesEnforced
<1>1. Init => TypeInv /\ AccessInv
  BY TypeInit, AccessInitially
<1>2. TypeInv /\ AccessInv /\ [Next]_vars => TypeInv' /\ AccessInv'
  BY TypeStep, AccessStep
<1>3. TypeInv /\ AccessInv => RolesEnforced
  BY DEF AccessInv, RolesEnforced, Secured, EffectAllowed
<1> QED BY <1>1, <1>2, <1>3, PTL DEF Spec

----------------------------------------------------------------------------
(***************************************************************************)
(* Configurations.  Load is characterised by what the configuration it     *)
(* returns takes from the file; the profiles a file or a request selects   *)
(* replace sections, never the scope, the authorization or the active      *)
(* tests.                                                                  *)
(***************************************************************************)

\* A record with the sections of a configuration, and one of a scan.
Shaped(c) == c = WithSections(c, c.scan, c.scheduler, c.portscan)

ScanShaped(s) ==
  s = [profile |-> s.profile, custom |-> s.custom, targets |-> s.targets, ports |-> s.ports,
       plan |-> s.plan, applied |-> s.applied]

LEMMA Sections ==
  ASSUME NEW c, NEW scan, NEW scheduler, NEW portscan
  PROVE  LET w == WithSections(c, scan, scheduler, portscan) IN
         /\ w.valid = c.valid /\ w.scope = c.scope /\ w.active = c.active
         /\ w.scan = scan /\ w.scheduler = scheduler /\ w.portscan = portscan
         /\ w.requireAuth = c.requireAuth /\ w.otherValid = c.otherValid
         /\ Shaped(w)
BY DEF WithSections, Shaped

\* What a profile replaces, and what it keeps.
LEMMA ProfileApplied ==
  ASSUME NEW c, NEW profile, NEW name, NEW explicit
  PROVE  LET a == ApplyProfile(c, profile, name, explicit) IN
         /\ a.valid = c.valid /\ a.scope = c.scope /\ a.active = c.active /\ a.otherValid = c.otherValid
         /\ Shaped(a) /\ ScanShaped(a.scan)
         /\ a.scan.applied /\ a.scan.profile = name /\ a.scan.targets = c.scan.targets /\ a.scan.ports = c.scan.ports
         /\ a.scan.plan = MergeModulePlan(profile.modules, explicit)
         /\ a.scheduler = ProfileScheduler(c.scheduler, profile, explicit)
         /\ a.portscan = ProfilePorts(c.portscan, profile, name, explicit)
<1> DEFINE scan == ProfileScan(c.scan, profile, name, explicit)
           scheduler == ProfileScheduler(c.scheduler, profile, explicit)
           ports == ProfilePorts(c.portscan, profile, name, explicit)
           a == WithSections(c, scan, scheduler, ports)
<1>1. /\ scan.applied /\ scan.profile = name /\ scan.targets = c.scan.targets /\ scan.ports = c.scan.ports
      /\ scan.plan = MergeModulePlan(profile.modules, explicit)
      /\ ScanShaped(scan)
  BY DEF ProfileScan, ScanShaped
<1> HIDE DEF scan, scheduler, ports
<1>2. /\ a.valid = c.valid /\ a.scope = c.scope /\ a.active = c.active /\ a.otherValid = c.otherValid
      /\ a.scan = scan /\ a.scheduler = scheduler /\ a.portscan = ports /\ Shaped(a)
  BY Sections
<1>3. a = ApplyProfile(c, profile, name, explicit)
  BY DEF ApplyProfile, scan, scheduler, ports
<1> HIDE DEF a
<1> QED BY <1>1, <1>2, <1>3 DEF scan, scheduler, ports

\* The configuration before Load's checks.
Applied(f) ==
  LET base    == Assigned(f)
      custom  == LoadCustomProfileTemplate(base.scan.custom) IN
  CASE base.scan.custom # "empty" ->
         IF custom = NoConfig THEN NoConfig ELSE ApplyProfile(base, custom, "custom", f)
    [] base.scan.custom = "empty" /\ base.scan.profile # "empty" -> ApplyConfiguredProfile(base, base.scan.profile, f)
    [] OTHER -> base

Checked(a) ==
  /\ a.valid
  /\ a.scope.allowed # {} /\ a.scan.targets # {}
  /\ a.scope.authorization \notin Placeholder
  /\ Validate(a)

LEMMA LoadUnfolds ==
  ASSUME NEW f
  PROVE  Load(f) = IF Checked(Applied(f)) THEN Applied(f) ELSE NoConfig
BY DEF Load, Applied, Checked

LEMMA AssignedFields ==
  ASSUME NEW f
  PROVE  LET b == Assigned(f) IN
         /\ b.valid /\ Shaped(b) /\ ScanShaped(b.scan)
         /\ b.scope = AssignScope(f) /\ b.active = AssignActiveTesting(f)
         /\ b.scheduler = AssignScheduler(f) /\ b.portscan = AssignPortScan(f)
         /\ b.scan = AssignScan(f)
         /\ b.otherValid = Setting(f, "other", TRUE)
<1>1. ScanShaped(AssignScan(f))
  BY DEF AssignScan, ScanShaped
<1>2. Assigned(f).valid
  BY DEF Assigned
<1>3. Shaped(Assigned(f))
  BY DEF Assigned, Shaped, WithSections
<1>4. LET b == Assigned(f) IN
      /\ b.scope = AssignScope(f) /\ b.active = AssignActiveTesting(f)
      /\ b.scheduler = AssignScheduler(f) /\ b.portscan = AssignPortScan(f)
      /\ b.scan = AssignScan(f)
      /\ b.otherValid = Setting(f, "other", TRUE)
  BY DEF Assigned
<1> QED BY <1>1, <1>2, <1>3, <1>4

\* A configuration that is what the file says: its scope and active tests, raw
\* scans only as the file says, no profile left to apply.
OfFile(c, f) ==
  /\ c.valid /\ Shaped(c) /\ ScanShaped(c.scan)
  /\ c.scope = AssignScope(f) /\ c.active = AssignActiveTesting(f)
  /\ c.portscan.raw => Setting(f, "portscan.enable_raw_scanning", FALSE)
  /\ c.scan.applied \/ c.scan.profile = "empty"

\* The file's explicit settings win over the profile's.
KeepsExplicit(c, f) ==
  /\ "scheduler.concurrency" \in DOMAIN f => c.scheduler.concurrency = f["scheduler.concurrency"]
  /\ "portscan.tcp_ports" \in DOMAIN f => c.portscan.ports = f["portscan.tcp_ports"]
  /\ "portscan.enable_tcp" \in DOMAIN f => c.portscan.tcp = f["portscan.enable_tcp"]
  /\ SetsAny(f, HTTPKeys) => ModuleEnabled(c, "http")
  /\ SetsAny(f, SpecializedKeys) => ModuleEnabled(c, "specialized")

\* A profile applied to the assigned file.
LEMMA ProfileOfFile ==
  ASSUME NEW f, NEW profile, NEW name
  PROVE  LET a == ApplyProfile(Assigned(f), profile, name, f) IN
         OfFile(a, f) /\ KeepsExplicit(a, f)
<1> DEFINE b == Assigned(f)
           a == ApplyProfile(b, profile, name, f)
<1>1. /\ b.valid /\ b.scope = AssignScope(f) /\ b.active = AssignActiveTesting(f)
      /\ b.scheduler = AssignScheduler(f) /\ b.portscan = AssignPortScan(f)
  BY AssignedFields
<1> HIDE DEF b
<1>2. /\ a.valid = b.valid /\ a.scope = b.scope /\ a.active = b.active
      /\ Shaped(a) /\ ScanShaped(a.scan) /\ a.scan.applied
      /\ a.scan.plan = MergeModulePlan(profile.modules, f)
      /\ a.scheduler = ProfileScheduler(b.scheduler, profile, f)
      /\ a.portscan = ProfilePorts(b.portscan, profile, name, f)
  BY ProfileApplied
<1> HIDE DEF a
<1>3. a.portscan.raw = Setting(f, "portscan.enable_raw_scanning", FALSE)
  BY <1>1, <1>2 DEF ProfilePorts, AssignPortScan
<1>4. OfFile(a, f)
  BY <1>1, <1>2, <1>3 DEF OfFile
<1>5. "scheduler.concurrency" \in DOMAIN f => a.scheduler.concurrency = f["scheduler.concurrency"]
  BY <1>1, <1>2 DEF ProfileScheduler, AssignScheduler, Setting
<1>6. "portscan.tcp_ports" \in DOMAIN f => a.portscan.ports = f["portscan.tcp_ports"]
  BY <1>1, <1>2 DEF ProfilePorts, AssignPortScan, Setting
<1>7. "portscan.enable_tcp" \in DOMAIN f => a.portscan.tcp = f["portscan.enable_tcp"]
  BY <1>1, <1>2 DEF ProfilePorts, AssignPortScan, Setting
<1>8. /\ SetsAny(f, HTTPKeys) => ModuleEnabled(a, "http")
      /\ SetsAny(f, SpecializedKeys) => ModuleEnabled(a, "specialized")
  <2>1. /\ SetsAny(f, HTTPKeys) => "http" \in MergeModulePlan(profile.modules, f)
        /\ SetsAny(f, SpecializedKeys) => "specialized" \in MergeModulePlan(profile.modules, f)
    BY DEF MergeModulePlan, Family
  <2> QED BY <1>2, <2>1 DEF ModuleEnabled
<1>9. KeepsExplicit(a, f)
  BY <1>5, <1>6, <1>7, <1>8 DEF KeepsExplicit
<1> QED BY <1>4, <1>9 DEF a, b

\* What Load returns is what the file says, and is valid.
LEMMA LoadOfFile ==
  ASSUME NEW f, Load(f) # NoConfig
  PROVE  OfFile(Load(f), f) /\ KeepsExplicit(Load(f), f) /\ Checked(Load(f))
<1> DEFINE b == Assigned(f)
<1>1. Load(f) = Applied(f) /\ Checked(Applied(f))
  BY LoadUnfolds
<1>2. ~NoConfig.valid
  BY DEF NoConfig
<1>3. Applied(f).valid
  BY <1>1 DEF Checked
<1>4. \/ Applied(f) = NoConfig
      \/ \E profile, name : Applied(f) = ApplyProfile(b, profile, name, f)
      \/ Applied(f) = b /\ b.scan.profile = "empty"
  BY DEF Applied, ApplyConfiguredProfile
<1>5. CASE \E profile, name : Applied(f) = ApplyProfile(b, profile, name, f)
  BY <1>1, <1>5, ProfileOfFile
<1>6. CASE Applied(f) = b /\ b.scan.profile = "empty"
  <2>1. /\ b.valid /\ Shaped(b) /\ ScanShaped(b.scan)
        /\ b.scope = AssignScope(f) /\ b.active = AssignActiveTesting(f)
        /\ b.scheduler = AssignScheduler(f) /\ b.portscan = AssignPortScan(f)
        /\ b.scan = AssignScan(f)
    BY AssignedFields
  <2> HIDE DEF b
  <2>2. b.portscan.raw = Setting(f, "portscan.enable_raw_scanning", FALSE)
    BY <2>1 DEF AssignPortScan
  <2>3. OfFile(b, f)
    BY <1>6, <2>1, <2>2 DEF OfFile
  <2>4. b.scan.plan = {}
    <3>1. AssignScan(f).plan = {}
      BY DEF AssignScan
    <3> QED BY <2>1, <3>1
  <2>5. KeepsExplicit(b, f)
    <3>1. /\ AssignScheduler(f).concurrency = Setting(f, "scheduler.concurrency", 1)
          /\ AssignPortScan(f).ports = Setting(f, "portscan.tcp_ports", {})
          /\ AssignPortScan(f).tcp = Setting(f, "portscan.enable_tcp", FALSE)
      BY DEF AssignScheduler, AssignPortScan
    <3> QED BY <2>1, <2>4, <3>1 DEF KeepsExplicit, Setting, ModuleEnabled
  <2> QED BY <1>1, <1>6, <2>3, <2>5
<1> QED BY <1>2, <1>3, <1>4, <1>5, <1>6

\* The scan section of a configuration is replaced.
LEMMA ScanReplaced ==
  ASSUME NEW c, Shaped(c), NEW scan
  PROVE  [c EXCEPT !.scan = scan] = WithSections(c, scan, c.scheduler, c.portscan)
BY DEF Shaped, WithSections

\* One setting of a scan section is replaced.
LEMMA ScanUpdated ==
  ASSUME NEW s, ScanShaped(s), NEW v
  PROVE  /\ [s EXCEPT !.ports = v] = [profile |-> s.profile, custom |-> s.custom, targets |-> s.targets, ports |-> v,
                                      plan |-> s.plan, applied |-> s.applied]
         /\ [s EXCEPT !.targets = v] = [profile |-> s.profile, custom |-> s.custom, targets |-> v, ports |-> s.ports,
                                        plan |-> s.plan, applied |-> s.applied]
BY DEF ScanShaped

\* What a requested profile replaces: ports, and raw techniques by none.
LEMMA RequestedProfile ==
  ASSUME NEW c, NEW name, NormalizeProfileName(name) \in Builtin
  PROVE  LET key == NormalizeProfileName(name)
             p == GetBuiltinProfiles[key]
             r == ApplyRequestedProfile(c, name) IN
         /\ r.valid = c.valid /\ r.scope = c.scope /\ r.active = c.active /\ r.otherValid = c.otherValid
         /\ Shaped(r) /\ ScanShaped(r.scan)
         /\ r.scan.applied /\ r.scan.profile = key /\ r.scan.targets = c.scan.targets /\ r.scan.ports = {}
         /\ r.scan.plan = MergeModulePlan(p.modules, <<>>)
         /\ r.scheduler = ProfileScheduler(c.scheduler, p, <<>>)
         /\ ~r.portscan.raw
         /\ r.portscan.ports = IF key = "exhaustive" THEN {} ELSE p.ports
<1> DEFINE key == NormalizeProfileName(name)
           p == GetBuiltinProfiles[key]
           a == ApplyProfile(c, p, key, <<>>)
           scan == [a.scan EXCEPT !.ports = {}]
           ports == [profile |-> a.portscan.profile, tcp |-> a.portscan.tcp,
                     ports |-> a.portscan.ports, udp |-> FALSE, raw |-> FALSE, decoys |-> {}]
           r == WithSections(a, scan, a.scheduler, ports)
<1>1. ApplyRequestedProfile(c, name) = r
  BY DEF ApplyRequestedProfile
<1> HIDE DEF key, p
<1>2. /\ a.valid = c.valid /\ a.scope = c.scope /\ a.active = c.active /\ a.otherValid = c.otherValid
      /\ ScanShaped(a.scan)
      /\ a.scan.applied /\ a.scan.profile = key /\ a.scan.targets = c.scan.targets
      /\ a.scan.plan = MergeModulePlan(p.modules, <<>>)
      /\ a.scheduler = ProfileScheduler(c.scheduler, p, <<>>)
      /\ a.portscan = ProfilePorts(c.portscan, p, key, <<>>)
  BY ProfileApplied
<1>3. a.portscan.ports = IF key = "exhaustive" THEN {} ELSE p.ports
  <2>1. ProfilePorts(c.portscan, p, key, <<>>).ports = IF key = "exhaustive" THEN {} ELSE p.ports
    BY DEF ProfilePorts
  <2> HIDE DEF a
  <2> QED BY <1>2, <2>1
<1> HIDE DEF a
<1>4. /\ scan.applied = a.scan.applied /\ scan.profile = a.scan.profile /\ scan.targets = a.scan.targets
      /\ scan.plan = a.scan.plan /\ scan.ports = {} /\ ScanShaped(scan)
  <2>1. scan = [profile |-> a.scan.profile, custom |-> a.scan.custom, targets |-> a.scan.targets, ports |-> {},
                plan |-> a.scan.plan, applied |-> a.scan.applied]
    BY <1>2, ScanUpdated
  <2> HIDE DEF scan
  <2> QED BY <2>1 DEF ScanShaped
<1>5. ~ports.raw /\ ports.ports = a.portscan.ports
  OBVIOUS
<1> HIDE DEF scan, ports
<1>6. /\ r.valid = a.valid /\ r.scope = a.scope /\ r.active = a.active /\ r.otherValid = a.otherValid
      /\ r.scan = scan /\ r.scheduler = a.scheduler /\ r.portscan = ports /\ Shaped(r)
  BY Sections
<1> HIDE DEF r
<1>7. /\ r.valid = c.valid /\ r.scope = c.scope /\ r.active = c.active /\ r.otherValid = c.otherValid
      /\ Shaped(r) /\ ScanShaped(r.scan)
      /\ r.scan.applied /\ r.scan.profile = key /\ r.scan.targets = c.scan.targets /\ r.scan.ports = {}
      /\ r.scan.plan = MergeModulePlan(p.modules, <<>>)
      /\ r.scheduler = ProfileScheduler(c.scheduler, p, <<>>)
      /\ ~r.portscan.raw
      /\ r.portscan.ports = IF key = "exhaustive" THEN {} ELSE p.ports
  BY <1>2, <1>3, <1>4, <1>5, <1>6
<1> QED BY <1>1, <1>7 DEF key, p

\* The configuration of a requested scan is still what the file says.
LEMMA RequestedOfFile ==
  ASSUME NEW f, OfFile(cfg, f), NEW ask, RequestedConfig(ask) # NoConfig
  PROVE  OfFile(RequestedConfig(ask), f)
<1> DEFINE scan == [cfg.scan EXCEPT !.targets = {ask.target}]
           locked == [cfg EXCEPT !.scan = scan]
<1>1. ScanShaped(scan) /\ scan.applied = cfg.scan.applied /\ scan.profile = cfg.scan.profile
  <2>1. scan = [profile |-> cfg.scan.profile, custom |-> cfg.scan.custom, targets |-> {ask.target}, ports |-> cfg.scan.ports,
                plan |-> cfg.scan.plan, applied |-> cfg.scan.applied]
    BY ScanUpdated DEF OfFile
  <2> HIDE DEF scan
  <2> QED BY <2>1 DEF ScanShaped
<1> HIDE DEF scan
<1>2. /\ locked.valid = cfg.valid /\ locked.scope = cfg.scope /\ locked.active = cfg.active
      /\ locked.scan = scan /\ locked.portscan = cfg.portscan /\ Shaped(locked)
  <2>1. locked = WithSections(cfg, scan, cfg.scheduler, cfg.portscan)
    BY ScanReplaced DEF OfFile
  <2> HIDE DEF locked
  <2> QED BY <2>1, Sections
<1>3. \/ RequestedConfig(ask) = locked
      \/ RequestedConfig(ask) = ApplyRequestedProfile(locked, ask.profile)
  BY DEF RequestedConfig, scan
<1> HIDE DEF locked
<1>4. CASE RequestedConfig(ask) = locked
  BY <1>1, <1>2, <1>4 DEF OfFile
<1>5. CASE RequestedConfig(ask) = ApplyRequestedProfile(locked, ask.profile)
  <2> DEFINE r == ApplyRequestedProfile(locked, ask.profile)
  <2>1. NormalizeProfileName(ask.profile) \in Builtin
    BY <1>5 DEF ApplyRequestedProfile
  <2>2. /\ r.valid = locked.valid /\ r.scope = locked.scope /\ r.active = locked.active
        /\ Shaped(r) /\ ScanShaped(r.scan) /\ r.scan.applied /\ ~r.portscan.raw
    BY <2>1, RequestedProfile
  <2> HIDE DEF r
  <2>3. OfFile(r, f)
    BY <1>2, <2>2 DEF OfFile
  <2> QED BY <1>5, <2>3 DEF r
<1> QED BY <1>3, <1>4, <1>5

----------------------------------------------------------------------------
(***************************************************************************)
(* Scans and files.  The server keeps the file it loaded, and a scan the   *)
(* file of its configuration, however the file on disk is edited.          *)
(***************************************************************************)

ServerConfigured == cfg # NoConfig => cfg = Load(loaded) /\ loaded # NoFile

RunsConfigured ==
  /\ \A n \in DOMAIN runs : OfFile(runs[n].cfg, runs[n].file)
  /\ \A n \in DOMAIN runs : runs[n].st = "running" => EngineAccepts(runs[n].cfg)

\* The file the wizard wrote is still the one it rendered.
WizardFile ==
  input # NoInput =>
    /\ input \in Input
    /\ BuildEngagementConfig(input) # NoConfig
    /\ file = RenderEngagementConfig(BuildEngagementConfig(input))

ConfigInv == ServerConfigured /\ RunsConfigured /\ WizardFile

\* The scans stay as they are.
LEMMA RunsFrame ==
  ASSUME RunsConfigured, UNCHANGED runs
  PROVE  RunsConfigured'
BY DEF RunsConfigured

\* A scan is added with the configuration of a file.
LEMMA RunsExtended ==
  ASSUME TypeInv, RunsConfigured, Len(runs) < MaxRuns,
         NEW id \in ScanId, NEW config, NEW f, OfFile(config, f), NEW from \in {"command", "server"},
         NEW st \in RunStates, from = "command" => st \in {"running", "ended"},
         st = "running" => EngineAccepts(config),
         runs' = Append(runs, Run(id, config, f, from, st))
  PROVE  RunsConfigured'
<1>1. /\ Len(runs) \in Nat
      /\ DOMAIN runs = 1..Len(runs) /\ DOMAIN runs' = 1..(Len(runs) + 1)
      /\ \A n \in DOMAIN runs : runs'[n] = runs[n]
      /\ runs'[Len(runs) + 1] = Run(id, config, f, from, st)
  BY RunAdded DEF TypeInv
<1>2. /\ runs'[Len(runs) + 1].cfg = config /\ runs'[Len(runs) + 1].file = f
      /\ runs'[Len(runs) + 1].st = st
  BY <1>1 DEF Run
<1>3. \A n \in DOMAIN runs' : OfFile(runs'[n].cfg, runs'[n].file)
  BY <1>1, <1>2 DEF RunsConfigured
<1>4. \A n \in DOMAIN runs' : runs'[n].st = "running" => EngineAccepts(runs'[n].cfg)
  BY <1>1, <1>2 DEF RunsConfigured
<1> QED BY <1>3, <1>4 DEF RunsConfigured

\* A scan moves on.
LEMMA RunsMoved ==
  ASSUME TypeInv, RunsConfigured, NEW n \in DOMAIN runs, NEW st \in RunStates,
         runs[n].from = "command" => st \in {"running", "ended"},
         runs' = [runs EXCEPT ![n].st = st], st = "running" => EngineAccepts(runs[n].cfg)
  PROVE  RunsConfigured'
<1>1. /\ DOMAIN runs' = DOMAIN runs
      /\ runs'[n] = Run(runs[n].id, runs[n].cfg, runs[n].file, runs[n].from, st)
      /\ \A m \in DOMAIN runs \ {n} : runs'[m] = runs[m]
  BY RunMoved DEF TypeInv
<1>2. runs'[n].cfg = runs[n].cfg /\ runs'[n].file = runs[n].file /\ runs'[n].st = st
  BY <1>1 DEF Run
<1>3. \A m \in DOMAIN runs' : OfFile(runs'[m].cfg, runs'[m].file)
  BY <1>1, <1>2 DEF RunsConfigured
<1>4. \A m \in DOMAIN runs' : runs'[m].st = "running" => EngineAccepts(runs'[m].cfg)
  BY <1>1, <1>2 DEF RunsConfigured
<1> QED BY <1>3, <1>4 DEF RunsConfigured

LEMMA ConfigInitially == Init => ConfigInv
BY DEF Init, ConfigInv, ServerConfigured, RunsConfigured, WizardFile

LEMMA ConfigStep == TypeInv /\ AccessInv /\ ConfigInv /\ [Next]_vars => ConfigInv'
<1> SUFFICES ASSUME TypeInv, AccessInv, ConfigInv, [Next]_vars PROVE ConfigInv'
  OBVIOUS
<1> USE DEF ConfigInv
<1>1. UNCHANGED serverVars => ServerConfigured' /\ WizardFile'
  BY DEF serverVars, ServerConfigured, WizardFile
<1>2. CASE UNCHANGED <<serverVars, runs>>
  BY <1>1, <1>2, RunsFrame DEF serverVars
<1>3. ASSUME NEW i \in Input, RunEngagementWizard(i)
      PROVE  ConfigInv'
  <2>1. /\ cfg = NoConfig /\ file = NoFile /\ UNCHANGED <<cfg, loaded, runs>> /\ input' = i
        /\ BuildEngagementConfig(i) # NoConfig
        /\ file' = RenderEngagementConfig(BuildEngagementConfig(i))
    BY <1>3 DEF RunEngagementWizard, WriteEngagementConfig
  <2>2. RunsConfigured'
    BY <2>1, RunsFrame DEF RunsConfigured
  <2> QED BY <2>1, <2>2 DEF ServerConfigured, WizardFile
<1>4. ASSUME NEW f \in HandFile, WriteFile(f)
      PROVE  ConfigInv'
  <2>1. cfg = NoConfig /\ file = NoFile /\ UNCHANGED <<cfg, loaded, runs>> /\ input' = NoInput
    BY <1>4 DEF WriteFile
  <2>2. RunsConfigured'
    BY <2>1, RunsFrame DEF RunsConfigured
  <2> QED BY <2>1, <2>2 DEF ServerConfigured, WizardFile
<1>5. ASSUME NEW e \in Edit, EditFile(e)
      PROVE  ConfigInv'
  <2>1. UNCHANGED <<cfg, loaded, runs>> /\ input' = NoInput
    BY <1>5 DEF EditFile
  <2>2. RunsConfigured'
    BY <2>1, RunsFrame
  <2> QED BY <2>1, <2>2 DEF ServerConfigured, WizardFile
<1>6. CASE StartServer
  <2>1. cfg' = Load(file) /\ loaded' = file /\ file # NoFile /\ UNCHANGED <<file, input, runs>>
    BY <1>6 DEF StartServer
  <2>2. RunsConfigured'
    BY <2>1, RunsFrame
  <2> QED BY <2>1, <2>2 DEF ServerConfigured, WizardFile
<1>7. ASSUME NEW id \in ScanId, RunCommand(id) PROVE ConfigInv'
  <2> DEFINE st == IF EngineAccepts(Load(file)) THEN "running" ELSE "ended"
  <2>1. /\ Len(runs) < MaxRuns /\ file # NoFile /\ Load(file) # NoConfig /\ UNCHANGED serverVars
        /\ runs' = Append(runs, Run(id, Load(file), file, "command", st))
    BY <1>7 DEF RunCommand
  <2>2. OfFile(Load(file), file)
    BY <2>1, LoadOfFile
  <2>3. st \in RunStates /\ st \in {"running", "ended"} /\ (st = "running" => EngineAccepts(Load(file)))
    BY DEF RunStates
  <2> HIDE DEF st
  <2>4. RunsConfigured'
    BY <2>1, <2>2, <2>3, RunsExtended
  <2> QED BY <1>1, <2>1, <2>4
<1>8. ASSUME NEW n \in DOMAIN runs, RunGoroutine(n) \/ StartEngine(n) \/ FinishRun(n)
      PROVE  ConfigInv'
  <2>1. UNCHANGED serverVars
    BY <1>8 DEF RunGoroutine, StartEngine, FinishRun
  <2>2. RunGoroutine(n) => RunsConfigured'
    <3> SUFFICES ASSUME RunGoroutine(n) PROVE RunsConfigured'
      OBVIOUS
    <3>1. runs' = [runs EXCEPT ![n].st = "started"] /\ runs[n].st = "launched"
      BY DEF RunGoroutine
    <3>2. RunRow(runs[n])
      BY DEF TypeInv, RunsOK
    <3>3. runs[n].from # "command" /\ "started" \in RunStates /\ "started" # "running"
      BY <3>1, <3>2 DEF RunRow, RunStates
    <3> QED BY <3>1, <3>3, RunsMoved
  <2>3. (StartEngine(n) /\ EngineAccepts(runs[n].cfg)) => RunsConfigured'
    <3> SUFFICES ASSUME StartEngine(n), EngineAccepts(runs[n].cfg) PROVE RunsConfigured'
      OBVIOUS
    <3>1. runs' = [runs EXCEPT ![n].st = "running"] /\ "running" \in RunStates
      BY DEF StartEngine, RunStates
    <3> QED BY <3>1, RunsMoved
  <2>4. RunsConfigured'
    <3>1. CASE (StartEngine(n) /\ ~EngineAccepts(runs[n].cfg)) \/ FinishRun(n)
      <4>1. runs' = [runs EXCEPT ![n].st = "ended"] /\ "ended" \in RunStates /\ "ended" # "running"
        BY <3>1 DEF StartEngine, FinishRun, RunStates
      <4> QED BY <4>1, RunsMoved
    <3> QED BY <1>8, <2>2, <2>3, <3>1
  <2> QED BY <1>1, <2>1, <2>4
<1>9. ASSUME NEW c \in Slot, NEW ask \in Asked, NEW id \in ScanId, DispatchScan(c, ask, id)
      PROVE  ConfigInv'
  <2>1. UNCHANGED serverVars /\ req[c].st = "authenticated"
    BY <1>9 DEF DispatchScan, Respond
  <2>2. CASE RequestedConfig(ask) = NoConfig
    BY <1>2, <1>9, <2>1, <2>2 DEF DispatchScan
  <2>3. CASE RequestedConfig(ask) # NoConfig
    <3>1. cfg # NoConfig
      BY <2>1 DEF AccessInv, Quiet
    <3>2. OfFile(RequestedConfig(ask), loaded)
      BY <2>3, <3>1, LoadOfFile, RequestedOfFile DEF ServerConfigured
    <3>3. Len(runs) < MaxRuns /\ runs' = Append(runs, Run(id, RequestedConfig(ask), loaded, "server", "launched"))
      BY <1>9, <2>3 DEF DispatchScan
    <3>4. RunsConfigured'
      BY <3>2, <3>3, RunsExtended DEF RunStates
    <3> QED BY <1>1, <2>1, <3>4
  <2> QED BY <2>2, <2>3
<1>10. ASSUME NEW c \in Slot,
              \/ \E kind \in Kind, method \in Method, token \in Token \cup {NoToken} : Authenticate(c, kind, method, token)
              \/ \E token \in Token \cup {NoToken} : OpenStream(c, token)
              \/ RecordAPIAudit(c)
              \/ ReceiveEvent(c) \/ Unsubscribe(c) \/ CloseChannel(c)
       PROVE  ConfigInv'
  BY <1>2, <1>10, ConnectionRow
<1>11. ASSUME NEW c \in Slot,
              \/ Reject(c) \/ ReloadAPITokens(c) \/ (\E id \in ScanId : ControlScan(c, id)) \/ HandleEngagementPlan(c) \/ HandleDelete(c)
              \/ HandleWrite(c) \/ HandleDistributedAgent(c) \/ HandleOrganizations(c) \/ HandleUsers(c) \/ FindUser(c) \/ Login(c) \/ Logout(c)
       PROVE  ConfigInv'
  <2>1. UNCHANGED <<serverVars, runs>>
    BY <1>11 DEF Reject, ReloadAPITokens, ControlScan, HandleEngagementPlan, HandleDelete, HandleWrite, HandleDistributedAgent, Serves, Respond,
                 HandleOrganizations, HandleUsers, FindUser, Login, Logout
  <2> QED BY <1>2, <2>1
<1>12. CASE UNCHANGED vars
  BY <1>2, <1>12 DEF vars
<1> QED BY <1>3, <1>4, <1>5, <1>6, <1>7, <1>8, <1>9, <1>10, <1>11, <1>12, SentAssumption DEF Next, Configure, Serve

\* The numbers that Validate bounds.
WorkersBounded(concurrency, min) == concurrency \in 1..256 /\ min \in 1..concurrency

LEMMA ValidateParts ==
  ASSUME NEW c
  PROVE  Validate(c) <=>
           /\ c.scope.authorization # "empty"
           /\ ValidateActiveTesting(c.active)
           /\ WorkersBounded(c.scheduler.concurrency, c.scheduler.min)
           /\ c.scan.ports \cup c.portscan.ports \subseteq PortNumber
           /\ c.portscan.decoys = {}
           /\ c.otherValid
BY DEF Validate, WorkersBounded

\* A valid configuration has a written authorization.
LEMMA ValidatedReference ==
  ASSUME NEW c, Validate(c)
  PROVE  c.scope.authorization # "empty"
BY DEF Validate

\* What the engine accepts of such a configuration is within the authorization.
LEMMA ConfigWithin == TypeInv /\ ConfigInv => RunsWithinAuthorization
<1> SUFFICES ASSUME TypeInv, ConfigInv, NEW n \in DOMAIN runs, runs[n].st = "running"
             PROVE  LET c == runs[n].cfg
                        f == runs[n].file IN
                    /\ \A t \in c.scan.targets : Allowed(Setting(f, "scope.allowed_targets", {Local}), t)
                    /\ c.scope.authorization = Setting(f, "scope.authorization", "empty") /\ c.scope.authorization # "empty"
                    /\ Validate(c)
                    /\ c.active.enabled => Setting(f, "active_testing.enabled", FALSE)
                    /\ c.portscan.raw => Setting(f, "portscan.enable_raw_scanning", FALSE)
  BY DEF RunsWithinAuthorization
<1> DEFINE c == runs[n].cfg
           f == runs[n].file
<1>1. OfFile(c, f) /\ EngineAccepts(c)
  BY DEF ConfigInv, RunsConfigured
<1> HIDE DEF c, f
<1>2. ApplyEngineProfile(c) = c
  <2>1. c.scan.applied \/ c.scan.profile = "empty"
    BY <1>1 DEF OfFile
  <2> QED BY <2>1 DEF ApplyEngineProfile
<1>3. Validate(c) /\ \A t \in c.scan.targets : Allowed(c.scope.allowed, t)
  BY <1>1, <1>2 DEF EngineAccepts
<1>4. /\ c.scope.allowed = Setting(f, "scope.allowed_targets", {Local})
      /\ c.scope.authorization = Setting(f, "scope.authorization", "empty")
  <2>1. c.scope = AssignScope(f)
    BY <1>1 DEF OfFile
  <2>2. /\ AssignScope(f).allowed = Setting(f, "scope.allowed_targets", {Local})
        /\ AssignScope(f).authorization = Setting(f, "scope.authorization", "empty")
    BY DEF AssignScope
  <2> QED BY <2>1, <2>2
<1>5. c.active.enabled => Setting(f, "active_testing.enabled", FALSE)
  <2>1. c.active = AssignActiveTesting(f)
    BY <1>1 DEF OfFile
  <2>2. AssignActiveTesting(f).enabled = Setting(f, "active_testing.enabled", FALSE)
    BY DEF AssignActiveTesting
  <2> QED BY <2>1, <2>2
<1>6. c.portscan.raw => Setting(f, "portscan.enable_raw_scanning", FALSE)
  BY <1>1 DEF OfFile
<1>7. c.scope.authorization # "empty"
  <2>1. Validate(c)
    BY <1>3
  <2> QED BY ONLY <2>1, ValidatedReference
<1> QED BY <1>3, <1>4, <1>5, <1>6, <1>7 DEF c, f

\* Every engine that works does so within the scope and the written authorization of
\* the file loaded for it, with valid bounds, and tests actively or scans raw only if
\* that file says so, whatever requests ask for and whichever profiles they select
\* (handleRunScan, ApplyRequestedProfile, Load, Engine.Run): for any files, edits,
\* requests and scopes.
THEOREM AuthorizationTheorem == Spec => []RunsWithinAuthorization
<1>1. Init => TypeInv /\ AccessInv /\ ConfigInv
  BY TypeInit, AccessInitially, ConfigInitially
<1>2. TypeInv /\ AccessInv /\ ConfigInv /\ [Next]_vars => TypeInv' /\ AccessInv' /\ ConfigInv'
  BY TypeStep, AccessStep, ConfigStep
<1>3. TypeInv /\ ConfigInv => RunsWithinAuthorization
  BY ConfigWithin
<1> QED BY <1>1, <1>2, <1>3, PTL DEF Spec

----------------------------------------------------------------------------
(***************************************************************************)
(* Engagements: a file the wizard rendered loads to what the wizard built. *)
(***************************************************************************)

LEMMA BuiltinNames ==
  /\ "standard" \in Builtin
  /\ \A key \in Builtin : key # "empty" /\ NormalizeProfileName(key) = key
<1>1. Builtin = {"quick", "standard", "exhaustive", "external_infrastructure", "internal_network", "web_application",
                 "api_assessment", "active_directory", "kubernetes", "cloud_infrastructure", "bug_bounty", "compliance"}
  BY DEF Builtin, GetBuiltinProfiles
<1>2. DOMAIN Alias = {"all", "web", "network", "api", "external", "cloud", "ad", "k8s"}
  BY DEF Alias
<1> QED BY <1>1, <1>2 DEF NormalizeProfileName

DocumentKeys ==
  {"scope.allowed_targets", "scope.authorization", "scheduler.concurrency", "scheduler.min_concurrency",
   "discovery.enable_dns", "portscan.profile", "portscan.enable_tcp", "portscan.enable_udp",
   "portscan.enable_raw_scanning", "http.enable_crawler", "scan.profile", "scan.targets",
   "active_testing.enabled", "api.require_auth"}

\* The document's settings.
LEMMA Rendered ==
  ASSUME NEW c
  PROVE  LET f == RenderEngagementConfig(c) IN
         /\ DOMAIN f = DocumentKeys
         /\ f["scope.allowed_targets"] = c.scope.allowed /\ f["scope.authorization"] = c.scope.authorization
         /\ f["scheduler.concurrency"] = c.scheduler.concurrency /\ f["scheduler.min_concurrency"] = c.scheduler.min
         /\ f["scan.profile"] = c.scan.profile /\ f["scan.targets"] = c.scan.targets
         /\ ~f["active_testing.enabled"] /\ ~f["portscan.enable_raw_scanning"]
<1>1. DOMAIN RenderEngagementConfig(c) = DocumentKeys
  BY DEF RenderEngagementConfig, DocumentKeys
<1>2. LET f == RenderEngagementConfig(c) IN
      /\ f["scope.allowed_targets"] = c.scope.allowed /\ f["scope.authorization"] = c.scope.authorization
      /\ f["scheduler.concurrency"] = c.scheduler.concurrency /\ f["scheduler.min_concurrency"] = c.scheduler.min
  BY DEF RenderEngagementConfig
<1>3. LET f == RenderEngagementConfig(c) IN
      f["scan.profile"] = c.scan.profile /\ f["scan.targets"] = c.scan.targets
  BY DEF RenderEngagementConfig
<1>4. LET f == RenderEngagementConfig(c) IN
      ~f["active_testing.enabled"] /\ ~f["portscan.enable_raw_scanning"]
  BY DEF RenderEngagementConfig
<1> QED BY <1>1, <1>2, <1>3, <1>4

\* What the wizard builds from its input.
LEMMA Built ==
  ASSUME NEW i, BuildEngagementConfig(i) # NoConfig
  PROVE  LET b == BuildEngagementConfig(i)
             p == GetBuiltinProfiles[b.scan.profile] IN
         /\ i.authorization \in ValidReference
         /\ b.scan.profile \in Builtin
         /\ b.scope = [allowed |-> {i.target}, authorization |-> i.authorization]
         /\ b.scan.targets = {i.target}
         /\ b.scan.plan = MergeModulePlan(p.modules, <<>>)
         /\ b.portscan.ports = IF b.scan.profile = "exhaustive" THEN {} ELSE p.ports
         /\ Validate(b)
<1> DEFINE scope == [allowed |-> {i.target}, authorization |-> i.authorization]
           scan == [Default.scan EXCEPT !.targets = {i.target}]
           scoped == [Default EXCEPT !.scope = scope]
           locked == [scoped EXCEPT !.scan = scan]
           name == IF i.profile = "empty" THEN "standard" ELSE i.profile
           b == ApplyRequestedProfile(locked, name)
<1>1. i.authorization \in ValidReference /\ b.valid /\ Validate(b) /\ BuildEngagementConfig(i) = b
  BY DEF BuildEngagementConfig
<1>2. NormalizeProfileName(name) \in Builtin
  <2>1. ~NoConfig.valid
    BY DEF NoConfig
  <2> HIDE DEF locked, name
  <2> QED BY <1>1, <2>1 DEF ApplyRequestedProfile
<1>3. locked.scope = scope /\ locked.scan = scan
  <2>1. /\ Shaped(Default) /\ Default.valid
    BY AssignedFields DEF Default
  <2> HIDE DEF scope, scan
  <2>2. DOMAIN Default = {"valid", "scope", "active", "scheduler", "discovery", "portscan", "http", "specialized", "passive",
                          "scan", "requireAuth", "otherValid"}
    BY DEF Default, Assigned
  <2> QED BY <2>2
<1>4. scan.targets = {i.target}
  <2>1. ScanShaped(Default.scan)
    BY AssignedFields DEF Default
  <2>2. scan = [profile |-> Default.scan.profile, custom |-> Default.scan.custom, targets |-> {i.target},
                ports |-> Default.scan.ports, plan |-> Default.scan.plan, applied |-> Default.scan.applied]
    BY <2>1, ScanUpdated
  <2> HIDE DEF scan
  <2> QED BY <2>2
<1> HIDE DEF locked, name, scan, scope
<1>5. LET key == NormalizeProfileName(name)
          p == GetBuiltinProfiles[key] IN
      /\ b.scope = locked.scope
      /\ b.scan.profile = key /\ b.scan.targets = locked.scan.targets
      /\ b.scan.plan = MergeModulePlan(p.modules, <<>>)
      /\ b.portscan.ports = IF key = "exhaustive" THEN {} ELSE p.ports
  BY <1>2, RequestedProfile
<1> HIDE DEF b
<1> QED BY <1>1, <1>2, <1>3, <1>4, <1>5 DEF scope

\* The document selects the profile it was built with, and no custom one.
LEMMA DocumentApplied ==
  ASSUME NEW i, BuildEngagementConfig(i) # NoConfig
  PROVE  LET b == BuildEngagementConfig(i)
             f == RenderEngagementConfig(b)
             key == b.scan.profile
         IN  Applied(f) = ApplyProfile(Assigned(f), GetBuiltinProfiles[key], key, f)
<1> DEFINE b == BuildEngagementConfig(i)
           f == RenderEngagementConfig(b)
           key == b.scan.profile
           base == Assigned(f)
<1>1. key \in Builtin /\ key # "empty" /\ NormalizeProfileName(key) = key
  BY Built, BuiltinNames
<1>2. DOMAIN f = DocumentKeys /\ f["scan.profile"] = key
  BY Rendered
<1> HIDE DEF b, f
<1>3. base.scan.custom = "empty" /\ base.scan.profile = key
  <2>1. base.scan = AssignScan(f)
    BY AssignedFields
  <2>2. AssignScan(f).custom = Setting(f, "scan.custom_profile", "empty") /\ AssignScan(f).profile = Setting(f, "scan.profile", "empty")
    BY DEF AssignScan
  <2>3. "scan.custom_profile" \notin DocumentKeys /\ "scan.profile" \in DocumentKeys
    BY DEF DocumentKeys
  <2>4. AssignScan(f).custom = "empty" /\ AssignScan(f).profile = key
    BY <1>2, <2>2, <2>3 DEF Setting
  <2> HIDE DEF base, key
  <2> QED BY <2>1, <2>4
<1> HIDE DEF base, key
<1>4. Applied(f) = ApplyConfiguredProfile(base, key, f)
  BY <1>1, <1>3 DEF Applied, base
<1>5. ApplyConfiguredProfile(base, key, f) = ApplyProfile(base, GetBuiltinProfiles[key], key, f)
  BY <1>1 DEF ApplyConfiguredProfile
<1> QED BY <1>4, <1>5 DEF base, key, b, f

\* What the wizard wrote loads: to the target, the profile and the concurrency it
\* was built with, at least the modules, and no active tests or raw scans.
LEMMA DocumentLoads ==
  ASSUME NEW i, BuildEngagementConfig(i) # NoConfig
  PROVE  LET b == BuildEngagementConfig(i)
             back == Load(RenderEngagementConfig(b)) IN
         /\ back # NoConfig
         /\ back.scope.allowed = {i.target} /\ back.scan.targets = {i.target}
         /\ ~back.active.enabled /\ ~back.portscan.raw
         /\ back.scheduler.concurrency = b.scheduler.concurrency
         /\ b.scan.plan \subseteq back.scan.plan
<1> DEFINE b == BuildEngagementConfig(i)
           f == RenderEngagementConfig(b)
           key == b.scan.profile
           p == GetBuiltinProfiles[key]
           base == Assigned(f)
           a == ApplyProfile(base, p, key, f)
<1>1. /\ i.authorization \in ValidReference
      /\ b.scope = [allowed |-> {i.target}, authorization |-> i.authorization]
      /\ b.scan.targets = {i.target}
      /\ b.scan.plan = MergeModulePlan(p.modules, <<>>)
      /\ b.portscan.ports = IF key = "exhaustive" THEN {} ELSE p.ports
      /\ Validate(b)
  BY Built
<1>2. /\ DOMAIN f = DocumentKeys
      /\ f["scope.allowed_targets"] = b.scope.allowed /\ f["scope.authorization"] = b.scope.authorization
      /\ f["scheduler.concurrency"] = b.scheduler.concurrency /\ f["scheduler.min_concurrency"] = b.scheduler.min
      /\ f["scan.targets"] = b.scan.targets
      /\ ~f["active_testing.enabled"] /\ ~f["portscan.enable_raw_scanning"]
  BY Rendered
<1>3. Applied(f) = a
  BY DocumentApplied
<1> HIDE DEF b, f, key, p
<1>4. /\ base.valid /\ base.scope = AssignScope(f) /\ base.active = AssignActiveTesting(f)
      /\ base.scheduler = AssignScheduler(f) /\ base.portscan = AssignPortScan(f)
      /\ base.scan = AssignScan(f) /\ base.otherValid = Setting(f, "other", TRUE)
  BY AssignedFields
<1> HIDE DEF base
<1>5. /\ a.valid = base.valid /\ a.scope = base.scope /\ a.active = base.active /\ a.otherValid = base.otherValid
      /\ a.scan.targets = base.scan.targets /\ a.scan.ports = base.scan.ports
      /\ a.scan.plan = MergeModulePlan(p.modules, f)
      /\ a.scheduler = ProfileScheduler(base.scheduler, p, f)
      /\ a.portscan = ProfilePorts(base.portscan, p, key, f)
  BY ProfileApplied
<1> HIDE DEF a
<1>6. /\ {"scope.allowed_targets", "scope.authorization", "scheduler.concurrency", "scheduler.min_concurrency",
          "scan.targets", "active_testing.enabled", "portscan.enable_raw_scanning"} \subseteq DOMAIN f
      /\ {"active_testing.allowed_techniques", "scan.ports", "portscan.tcp_ports", "portscan.decoy_ips", "other"}
           \cap DOMAIN f = {}
  BY <1>2 DEF DocumentKeys
<1>7. a.scope.allowed = {i.target} /\ a.scope.authorization = i.authorization
  <2>1. AssignScope(f).allowed = f["scope.allowed_targets"] /\ AssignScope(f).authorization = f["scope.authorization"]
    BY <1>6 DEF AssignScope, Setting
  <2>2. b.scope.allowed = {i.target} /\ b.scope.authorization = i.authorization
    BY <1>1
  <2> QED BY <1>2, <1>4, <1>5, <2>1, <2>2
<1>8. a.scan.targets = {i.target} /\ a.scan.ports = {}
  <2>1. AssignScan(f).targets = Setting(f, "scan.targets", {Local}) /\ AssignScan(f).ports = Setting(f, "scan.ports", {})
    BY DEF AssignScan
  <2>2. Setting(f, "scan.targets", {Local}) = f["scan.targets"] /\ Setting(f, "scan.ports", {}) = {}
    BY <1>6 DEF Setting
  <2> QED BY <1>1, <1>2, <1>4, <1>5, <2>1, <2>2
<1>9. ~a.active.enabled /\ a.active.techniques = {}
  <2>1. /\ AssignActiveTesting(f).enabled = Setting(f, "active_testing.enabled", FALSE)
        /\ AssignActiveTesting(f).techniques = Setting(f, "active_testing.allowed_techniques", {})
    BY DEF AssignActiveTesting
  <2>2. ~Setting(f, "active_testing.enabled", FALSE) /\ Setting(f, "active_testing.allowed_techniques", {}) = {}
    BY <1>2, <1>6 DEF Setting
  <2> QED BY <1>4, <1>5, <2>1, <2>2
<1>10. a.scheduler.concurrency = b.scheduler.concurrency /\ a.scheduler.min = b.scheduler.min
  <2>1. AssignScheduler(f).concurrency = f["scheduler.concurrency"] /\ AssignScheduler(f).min = f["scheduler.min_concurrency"]
    BY <1>6 DEF AssignScheduler, Setting
  <2>2. /\ ProfileScheduler(base.scheduler, p, f).concurrency = base.scheduler.concurrency
        /\ ProfileScheduler(base.scheduler, p, f).min = base.scheduler.min
    BY <1>6 DEF ProfileScheduler
  <2> QED BY <1>2, <1>4, <1>5, <2>1, <2>2
<1>11. a.portscan.ports = b.portscan.ports /\ ~a.portscan.raw /\ a.portscan.decoys = {}
  <2>1. /\ AssignPortScan(f).raw = Setting(f, "portscan.enable_raw_scanning", FALSE)
        /\ AssignPortScan(f).decoys = Setting(f, "portscan.decoy_ips", {})
    BY DEF AssignPortScan
  <2>2. ~Setting(f, "portscan.enable_raw_scanning", FALSE) /\ Setting(f, "portscan.decoy_ips", {}) = {}
    BY <1>2, <1>6 DEF Setting
  <2>3. /\ ProfilePorts(base.portscan, p, key, f).raw = base.portscan.raw
        /\ ProfilePorts(base.portscan, p, key, f).decoys = base.portscan.decoys
        /\ ProfilePorts(base.portscan, p, key, f).ports = IF key = "exhaustive" THEN {} ELSE p.ports
    BY <1>6 DEF ProfilePorts
  <2> QED BY <1>1, <1>4, <1>5, <2>1, <2>2, <2>3
<1>12. a.otherValid
  <2>1. Setting(f, "other", TRUE)
    BY <1>6 DEF Setting
  <2> QED BY <1>4, <1>5, <2>1
<1>13. b.scan.plan \subseteq a.scan.plan
  <2>1. MergeModulePlan(p.modules, <<>>) \subseteq MergeModulePlan(p.modules, f)
    BY DEF MergeModulePlan, SetsAny
  <2> QED BY <1>1, <1>5, <2>1
<1>14. Validate(a)
  <2>1. i.authorization = "AUTH-1"
    BY <1>1 DEF ValidReference
  <2>2. /\ WorkersBounded(b.scheduler.concurrency, b.scheduler.min)
        /\ b.scan.ports \cup b.portscan.ports \subseteq PortNumber
    BY <1>1, ValidateParts
  <2>3. a.scan.ports \cup a.portscan.ports \subseteq PortNumber
    <3>1. a.scan.ports \cup a.portscan.ports \subseteq b.scan.ports \cup b.portscan.ports
      BY <1>8, <1>11
    <3> QED BY <2>2, <3>1
  <2>4. WorkersBounded(a.scheduler.concurrency, a.scheduler.min)
    BY <1>10, <2>2
  <2>5. ValidateActiveTesting(a.active)
    BY <1>9 DEF ValidateActiveTesting
  <2>6. a.scope.authorization # "empty"
    BY <1>7, <2>1
  <2>7. a.portscan.decoys = {} /\ a.otherValid
    BY <1>11, <1>12
  <2> QED BY <2>3, <2>4, <2>5, <2>6, <2>7, ValidateParts
<1>15. Checked(a)
  <2>1. a.scope.authorization \notin Placeholder
    BY <1>1, <1>7 DEF ValidReference, Placeholder
  <2>2. a.valid /\ a.scope.allowed # {} /\ a.scan.targets # {}
    BY <1>4, <1>5, <1>7, <1>8
  <2> QED BY <1>14, <2>1, <2>2 DEF Checked
<1>16. Load(f) = a /\ a # NoConfig
  <2>1. Load(f) = a
    BY <1>3, <1>15, LoadUnfolds
  <2>2. ~NoConfig.valid /\ a.valid
    BY <1>4, <1>5 DEF NoConfig
  <2> QED BY <2>1, <2>2
<1> QED BY <1>7, <1>8, <1>9, <1>10, <1>11, <1>13, <1>16 DEF b, f

\* The configuration is what its author wrote.
LEMMA ConfigIsFaithful == ConfigInv => ConfigFaithful
<1> SUFFICES ASSUME ConfigInv PROVE ConfigFaithful
  OBVIOUS
<1>1. ExplicitWins
  <2> SUFFICES ASSUME cfg # NoConfig PROVE KeepsExplicit(cfg, loaded)
    BY DEF ExplicitWins, KeepsExplicit
  <2>1. cfg = Load(loaded)
    BY DEF ConfigInv, ServerConfigured
  <2> QED BY <2>1, LoadOfFile
<1>2. EngagementLocked
  <2> SUFFICES ASSUME input # NoInput
               PROVE  LET back == Load(file)
                          shown  == PreviewEngagementPlan(BuildEngagementConfig(input)) IN
                      /\ back # NoConfig
                      /\ back.scope.allowed = {input.target} /\ back.scan.targets = {input.target}
                      /\ ~back.active.enabled /\ ~ResolveEffectivePlan(back).privileged
                      /\ back.scheduler.concurrency = shown.concurrency
                      /\ shown.modules \subseteq ResolveEffectivePlan(back).modules
    BY DEF EngagementLocked
  <2> DEFINE b == BuildEngagementConfig(input)
             back == Load(file)
  <2>1. b # NoConfig /\ back = Load(RenderEngagementConfig(b))
    BY DEF ConfigInv, WizardFile
  <2>2. /\ back # NoConfig
        /\ back.scope.allowed = {input.target} /\ back.scan.targets = {input.target}
        /\ ~back.active.enabled /\ ~back.portscan.raw
        /\ back.scheduler.concurrency = b.scheduler.concurrency
        /\ b.scan.plan \subseteq back.scan.plan
    BY <2>1, DocumentLoads
  <2> HIDE DEF b, back
  <2>3. PreviewEngagementPlan(b).concurrency = b.scheduler.concurrency /\ PreviewEngagementPlan(b).modules = b.scan.plan
    BY DEF PreviewEngagementPlan
  <2>4. ResolveEffectivePlan(back).modules = IF back.scan.plan = {} THEN Family ELSE back.scan.plan
    BY DEF ResolveEffectivePlan
  <2>5. ResolveEffectivePlan(back).privileged = back.portscan.raw
    BY DEF ResolveEffectivePlan
  <2>6. ~ResolveEffectivePlan(back).privileged
    BY <2>2, <2>5
  <2>7. PreviewEngagementPlan(b).modules \subseteq ResolveEffectivePlan(back).modules
    BY <2>2, <2>3, <2>4
  <2> QED BY <2>2, <2>3, <2>6, <2>7 DEF b, back
<1> QED BY <1>1, <1>2 DEF ConfigFaithful

\* A loaded configuration is what its author wrote: an explicit setting survives the
\* profile the file selects, every family with settings of its own is in the plan,
\* and a file the wizard rendered loads, locked to its target, as the preview showed
\* it (Load, ApplyConfiguredProfile, RenderEngagementConfig): for any files, edits
\* and wizard inputs.
THEOREM ConfigTheorem == Spec => []ConfigFaithful
<1>1. Init => TypeInv /\ AccessInv /\ ConfigInv
  BY TypeInit, AccessInitially, ConfigInitially
<1>2. TypeInv /\ AccessInv /\ ConfigInv /\ [Next]_vars => TypeInv' /\ AccessInv' /\ ConfigInv'
  BY TypeStep, AccessStep, ConfigStep
<1>3. ConfigInv => ConfigFaithful
  BY ConfigIsFaithful
<1> QED BY <1>1, <1>2, <1>3, PTL DEF Spec
=============================================================================

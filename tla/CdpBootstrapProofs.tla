------------------------- MODULE CdpBootstrapProofs -------------------------
(***************************************************************************)
(* Proofs about the endpoint where a browser client finds its browser, for *)
(* every number of connections and every limit on the workers.             *)
(***************************************************************************)
EXTENDS CdpBootstrap, FiniteSetTheorems, TLAPS

\* One connection moves: the busy connections change by that one at most.
LEMMA BusyMove ==
  ASSUME NEW cs \in [Conns -> Connection], NEW c \in Conns, NEW r \in Connection,
         IsFiniteSet(Busy(cs))
  PROVE  LET new == [cs EXCEPT ![c] = r] IN
         /\ new \in [Conns -> Connection]
         /\ IsFiniteSet(Busy(new))
         /\ Cardinality(Busy(cs)) \in Nat
         /\ (c \in Busy(cs) <=> c \in Busy(new)) => Busy(new) = Busy(cs)
         /\ c \notin Busy(cs) /\ c \in Busy(new)
              => Cardinality(Busy(new)) = Cardinality(Busy(cs)) + 1
         /\ c \in Busy(cs) /\ c \notin Busy(new)
              => /\ Cardinality(Busy(new)) = Cardinality(Busy(cs)) - 1
                 /\ Cardinality(Busy(cs)) > 0
<1> DEFINE new == [cs EXCEPT ![c] = r]
<1>1. new \in [Conns -> Connection]
  OBVIOUS
<1>2. \A d \in Conns \ {c} : d \in Busy(new) <=> d \in Busy(cs)
  BY DEF Busy
<1>3. Busy(new) \subseteq Conns /\ Busy(cs) \subseteq Conns
  BY DEF Busy
<1>4. CASE c \in Busy(cs) <=> c \in Busy(new)
  <2>1. \A d : d \in Busy(new) <=> d \in Busy(cs)
    BY <1>2, <1>3, <1>4
  <2>2. Busy(new) = Busy(cs)
    BY <2>1
  <2> QED BY <1>1, <1>4, <2>2, FS_CardinalityType
<1>5. CASE c \notin Busy(cs) /\ c \in Busy(new)
  <2>1. Busy(new) = Busy(cs) \cup {c}
    BY <1>2, <1>3, <1>5
  <2>2. /\ IsFiniteSet(Busy(new))
        /\ Cardinality(Busy(new)) = Cardinality(Busy(cs)) + 1
    BY <1>5, <2>1, FS_AddElement
  <2> QED BY <1>1, <1>5, <2>2, FS_CardinalityType
<1>6. CASE c \in Busy(cs) /\ c \notin Busy(new)
  <2>1. Busy(new) = Busy(cs) \ {c}
    BY <1>2, <1>3, <1>6
  <2>2. /\ IsFiniteSet(Busy(new))
        /\ Cardinality(Busy(new)) = Cardinality(Busy(cs)) - 1
    BY <1>6, <2>1, FS_RemoveElement
  <2>3. Cardinality(Busy(new)) \in Nat /\ Cardinality(Busy(cs)) \in Nat
    BY <2>2, FS_CardinalityType
  <2> QED BY <1>1, <1>6, <2>2, <2>3
<1> QED BY <1>4, <1>5, <1>6

\* The inductive invariant holds initially.
LEMMA InitInv == Init => IInv
<1> SUFFICES ASSUME Init PROVE IInv
  OBVIOUS
<1> USE DEF Init, NewConn, Looping
<1>1. TypeOK
  BY DEF TypeOK, Connection
<1>2. Busy(conn) = {}
  BY DEF Busy
<1>3. IsFiniteSet(Busy(conn)) /\ Cardinality(Busy(conn)) = 0
  BY <1>2, FS_EmptySet
<1>4. PlacesReturn
  BY <1>3, MaxConnectionsAssumption DEF PlacesReturn
<1>5. LoopInv /\ AskedWithToken /\ EndpointEarned
  BY DEF LoopInv, AskedWithToken, EndpointEarned
<1> QED BY <1>1, <1>3, <1>4, <1>5 DEF IInv

\* Every step of the wrapper, the accept thread and the workers preserves it.
LEMMA NextInv == IInv /\ [Next]_vars => IInv'
<1> SUFFICES ASSUME IInv, [Next]_vars PROVE IInv'
  OBVIOUS
<1>a. TypeOK /\ LoopInv /\ AskedWithToken /\ EndpointEarned /\ PlacesReturn
      /\ IsFiniteSet(Busy(conn))
  BY DEF IInv
<1>b. conn \in [Conns -> Connection] /\ active \in Nat
  BY <1>a DEF TypeOK
<1>c. Cardinality(Busy(conn)) \in Nat
  BY <1>a, FS_CardinalityType
<1>1. CASE Probe \/ Start \/ SpawnChild \/ ChildExits
  <2>1. /\ TypeOK' /\ wrapper # "ended" /\ wrapper' # "ended" /\ UNCHANGED <<active, conn, ensured>>
        /\ loop' = loop \/ (loop.do = "none" /\ loop' = Looping("accept"))
    <3>1. CASE Start
      BY <1>a, <3>1 DEF TypeOK, LoopInv, Start, Looping
    <3>2. CASE Probe \/ SpawnChild \/ ChildExits
      BY <1>a, <3>2 DEF TypeOK, Probe, SpawnChild, ChildExits
    <3> QED BY <1>1, <3>1, <3>2
  <2>2. IsFiniteSet(Busy(conn))' /\ AskedWithToken' /\ EndpointEarned'
    BY <1>a, <2>1 DEF AskedWithToken, EndpointEarned
  <2>3. LoopInv'
    BY <1>a, <1>1, <2>1 DEF LoopInv, Looping, Probe, Start, SpawnChild, ChildExits, TypeOK
  <2>4. PlacesReturn'
    BY <1>a, <2>1 DEF PlacesReturn, Looping
  <2> QED BY <2>1, <2>2, <2>3, <2>4 DEF IInv
<1>2. CASE Join
  <2>1. /\ wrapper = "stopping" /\ wrapper' = "ended" /\ loop.do = "ended" /\ active' = 0
        /\ UNCHANGED <<loop, ensured>>
    BY <1>2 DEF Join
  <2>2. \A c \in Conns :
          /\ conn'[c] \in Connection /\ conn'[c].ask = conn[c].ask
          /\ conn'[c].at \in {"none", "done"}
          /\ conn'[c].reply \in {conn[c].reply, "closed"}
    BY <1>b, <1>2 DEF Join, Connection
  <2>3. conn' \in [Conns -> Connection]
    BY <1>2, <2>2 DEF Join
  <2>4. TypeOK'
    BY <1>a, <2>1, <2>3 DEF TypeOK
  <2>5. Busy(conn)' = {}
    BY <2>2 DEF Busy
  <2>6. IsFiniteSet(Busy(conn)')
    BY <2>5, FS_EmptySet
  <2>7. LoopInv' /\ AskedWithToken' /\ EndpointEarned' /\ PlacesReturn'
    BY <1>a, <2>1, <2>2, MaxConnectionsAssumption
      DEF LoopInv, AskedWithToken, EndpointEarned, PlacesReturn
  <2> QED BY <2>4, <2>6, <2>7 DEF IInv
<1>3. CASE LoopEnds
  <2>1. /\ wrapper = "stopping" /\ loop.do = "accept" /\ loop' = Looping("ended")
        /\ UNCHANGED <<wrapper, active, ensured>>
    BY <1>3 DEF LoopEnds
  <2>2. \A c \in Conns :
          /\ conn'[c] \in Connection /\ conn'[c].ask = conn[c].ask
          /\ conn'[c].at = conn[c].at \/ (conn[c].at = "queued" /\ conn'[c].at = "done")
          /\ conn'[c].reply \in {conn[c].reply, "closed"}
    <3> SUFFICES ASSUME NEW c \in Conns
                 PROVE  /\ conn'[c] \in Connection /\ conn'[c].ask = conn[c].ask
                        /\ conn'[c].at = conn[c].at \/ (conn[c].at = "queued" /\ conn'[c].at = "done")
                        /\ conn'[c].reply \in {conn[c].reply, "closed"}
      OBVIOUS
    <3>1. conn[c] \in Connection
      BY <1>b
    <3>2. conn'[c] = IF conn[c].at = "queued" THEN [conn[c] EXCEPT !.at = "done", !.reply = "closed"]
                     ELSE conn[c]
      BY <1>3 DEF LoopEnds
    <3> QED BY <3>1, <3>2 DEF Connection
  <2>3. conn' \in [Conns -> Connection]
    BY <1>3, <2>2 DEF LoopEnds
  <2>4. TypeOK'
    BY <1>a, <2>1, <2>3 DEF TypeOK, Looping
  <2>5. Busy(conn)' = Busy(conn)
    BY <2>2 DEF Busy
  <2>6. LoopInv' /\ AskedWithToken' /\ EndpointEarned' /\ PlacesReturn'
    BY <1>a, <2>1, <2>2, <2>5 DEF LoopInv, AskedWithToken, EndpointEarned, PlacesReturn, Looping
  <2> QED BY <1>a, <2>4, <2>5, <2>6 DEF IInv
<1>4. ASSUME NEW c \in Conns, Accept(c) PROVE IInv'
  <2> DEFINE r == [conn[c] EXCEPT !.at = "accepted"]
  <2>1. conn[c] \in Connection /\ conn[c].at = "queued" /\ r \in Connection
    BY <1>b, <1>4 DEF Accept, Connection
  <2>2. conn' = [conn EXCEPT ![c] = r] /\ conn'[c] = r
    BY <1>b, <1>4 DEF Accept
  <2>3. c \notin Busy(conn) /\ c \notin Busy(conn)'
    BY <2>1, <2>2 DEF Busy, Connection
  <2>4. conn' \in [Conns -> Connection] /\ Busy(conn)' = Busy(conn)
    BY <1>a, <1>b, <2>1, <2>2, <2>3, BusyMove
  <2>5. loop.do = "accept" /\ UNCHANGED <<wrapper, ensured>> /\ wrapper # "ended"
    BY <1>a, <1>4 DEF Accept, LoopInv
  <2>6. CASE active >= MaxConnections
    <3>1. loop' = [do |-> "reject", with |-> c] /\ active' = active
      BY <1>4, <2>6 DEF Accept
    <3>2. TypeOK'
      BY <1>a, <2>4, <2>5, <3>1 DEF TypeOK
    <3>3. LoopInv' /\ PlacesReturn'
      BY <1>a, <2>2, <2>1, <2>4, <2>5, <3>1 DEF LoopInv, PlacesReturn, Connection
    <3>4. AskedWithToken' /\ EndpointEarned'
      BY <1>a, <1>b, <2>1, <2>2, <2>5 DEF AskedWithToken, EndpointEarned, Connection
    <3> QED BY <1>a, <2>4, <3>2, <3>3, <3>4 DEF IInv
  <2>7. CASE ~(active >= MaxConnections)
    <3>1. loop' = [do |-> "spawn", with |-> c] /\ active' = active + 1
      BY <1>4, <2>7 DEF Accept
    <3>2. TypeOK'
      BY <1>a, <2>4, <2>5, <3>1 DEF TypeOK
    <3>3. LoopInv'
      BY <1>a, <2>1, <2>2, <2>5, <3>1 DEF LoopInv, Connection
    <3>4. PlacesReturn'
      BY <1>a, <1>b, <1>c, <2>4, <2>5, <2>7, <3>1, MaxConnectionsAssumption DEF PlacesReturn
    <3>5. AskedWithToken' /\ EndpointEarned'
      BY <1>a, <1>b, <2>1, <2>2, <2>5 DEF AskedWithToken, EndpointEarned, Connection
    <3> QED BY <1>a, <2>4, <3>2, <3>3, <3>4, <3>5 DEF IInv
  <2> QED BY <2>6, <2>7
<1>5. CASE RejectBusy \/ SpawnFails \/ SpawnWorker
  <2> DEFINE c == loop.with
  <2>1. c \in Conns /\ conn[c].at = "accepted" /\ wrapper # "ended" /\ c \notin Busy(conn)
    BY <1>a, <1>5 DEF LoopInv, RejectBusy, SpawnFails, SpawnWorker, Busy
  <2>2. loop' = Looping("accept") /\ UNCHANGED <<wrapper, ensured>>
    BY <1>5 DEF RejectBusy, SpawnFails, SpawnWorker
  <2>3. PICK r \in Connection :
          /\ conn' = [conn EXCEPT ![c] = r] /\ r.ask = conn[c].ask
          /\ \/ r.at = "done" /\ r.reply \in {"busy", "closed"} /\ ~SpawnWorker
             \/ r.at = "reading" /\ r.reply = conn[c].reply /\ SpawnWorker
    <3>0. conn[c] \in Connection
      BY <1>b, <2>1
    <3>1. CASE RejectBusy
      <4> DEFINE r == [conn[c] EXCEPT !.at = "done", !.reply = "busy"]
      <4>1. r \in Connection /\ conn' = [conn EXCEPT ![c] = r] /\ ~SpawnWorker
        BY <1>b, <2>1, <3>0, <3>1 DEF RejectBusy, SpawnWorker, Connection
      <4>2. r.ask = conn[c].ask /\ r.at = "done" /\ r.reply = "busy"
        BY <3>0 DEF Connection
      <4> QED BY <4>1, <4>2
    <3>2. CASE SpawnFails
      <4> DEFINE r == [conn[c] EXCEPT !.at = "done", !.reply = "closed"]
      <4>1. r \in Connection /\ conn' = [conn EXCEPT ![c] = r]
        BY <1>b, <2>1, <3>0, <3>2 DEF SpawnFails, Connection
      <4>2. r.ask = conn[c].ask /\ r.at = "done" /\ r.reply = "closed"
        BY <3>0 DEF Connection
      <4>3. ~SpawnWorker
        BY <1>b, <3>2 DEF SpawnFails, SpawnWorker
      <4> QED BY <4>1, <4>2, <4>3
    <3>3. CASE SpawnWorker
      <4> DEFINE r == [conn[c] EXCEPT !.at = "reading"]
      <4>1. r \in Connection /\ conn' = [conn EXCEPT ![c] = r]
        BY <1>b, <2>1, <3>0, <3>3 DEF SpawnWorker, Connection
      <4>2. r.ask = conn[c].ask /\ r.at = "reading" /\ r.reply = conn[c].reply
        BY <3>0 DEF Connection
      <4> QED BY <3>3, <4>1, <4>2
    <3> QED BY <1>5, <3>1, <3>2, <3>3
  <2>4. conn'[c] = r /\ \A d \in Conns \ {c} : conn'[d] = conn[d]
    BY <1>b, <2>1, <2>3
  <2>5. AskedWithToken' /\ EndpointEarned'
    BY <1>a, <2>2, <2>3, <2>4 DEF AskedWithToken, EndpointEarned
  <2>6. LoopInv'
    <3>1. loop.do # "none"
      BY <1>5 DEF RejectBusy, SpawnFails, SpawnWorker
    <3> QED BY <1>a, <2>1, <2>2, <3>1 DEF LoopInv, Looping
  <2>7. conn' \in [Conns -> Connection] /\ IsFiniteSet(Busy(conn)')
    BY <1>a, <1>b, <2>1, <2>3, BusyMove
  <2>8. CASE SpawnWorker
    <3>1. c \in Busy(conn)'
      BY <2>1, <2>3, <2>4, <2>8 DEF Busy
    <3>2. Cardinality(Busy(conn)') = Cardinality(Busy(conn)) + 1
      BY <1>a, <1>b, <2>1, <2>3, <3>1, BusyMove
    <3>3. active' = active /\ loop.do = "spawn"
      BY <2>8 DEF SpawnWorker
    <3> QED BY <1>a, <1>b, <1>c, <2>1, <2>2, <2>5, <2>6, <2>7, <3>2, <3>3
         DEF IInv, TypeOK, PlacesReturn, Looping
  <2>9. CASE ~SpawnWorker
    <3>1. c \notin Busy(conn)'
      BY <2>3, <2>4, <2>9 DEF Busy
    <3>2. Busy(conn)' = Busy(conn)
      BY <1>a, <1>b, <2>1, <2>3, <3>1, BusyMove
    <3>3. \/ active' = active /\ loop.do = "reject"
          \/ active' = active - 1 /\ loop.do = "spawn"
      BY <1>5, <2>9 DEF RejectBusy, SpawnFails
    <3>4. active' \in Nat /\ PlacesReturn'
      BY <1>a, <1>b, <1>c, <2>1, <2>2, <3>2, <3>3, MaxConnectionsAssumption
        DEF PlacesReturn, Looping
    <3> QED BY <1>a, <2>2, <2>5, <2>6, <2>7, <3>4 DEF IInv, TypeOK, Looping
  <2> QED BY <2>8, <2>9
<1>6. ASSUME NEW c \in Conns, wrapper # "ended", Connect(c) \/ ReadRequest(c) \/ EnsureBrowser(c)
      PROVE  IInv'
  <2>0. conn[c] \in Connection
    BY <1>b
  <2>1. UNCHANGED <<wrapper, loop, active>> /\ ensured \subseteq ensured' /\ ensured' \subseteq Conns
    BY <1>a, <1>6 DEF Connect, ReadRequest, EnsureBrowser, TypeOK
  <2>2. PICK r \in Connection :
          /\ conn' = [conn EXCEPT ![c] = r]
          /\ conn[c].at # "accepted"
          /\ conn[c].at \in {"reading", "ensuring", "writing"}
               <=> r.at \in {"reading", "ensuring", "writing"}
          /\ r.at = "ensuring" => r.ask = "token" /\ c \in ensured'
          /\ r.reply \in {"loopback", "elsewhere"}
               => r.reply = "loopback" /\ r.ask = "token" /\ c \in ensured'
    <3>1. CASE Connect(c)
      <4>1. PICK a \in Asks : conn' = [conn EXCEPT ![c] = [NewConn EXCEPT !.at = "queued", !.ask = a]]
        BY <3>1 DEF Connect
      <4> DEFINE r == [NewConn EXCEPT !.at = "queued", !.ask = a]
      <4>2. r \in Connection /\ r.at = "queued" /\ r.reply = "none"
        BY DEF NewConn, Connection
      <4> QED BY <3>1, <4>1, <4>2 DEF Connect
    <3>2. CASE ReadRequest(c) /\ Authorised(c)
      <4> DEFINE r == [conn[c] EXCEPT !.at = "ensuring"]
      <4>1. r \in Connection /\ r.at = "ensuring" /\ r.ask = "token" /\ r.reply = conn[c].reply
        BY <2>0, <3>2 DEF Connection, Authorised
      <4>2. conn' = [conn EXCEPT ![c] = r] /\ conn[c].at = "reading" /\ ensured' = ensured \cup {c}
        BY <1>b, <3>2 DEF ReadRequest
      <4> QED BY <1>a, <4>1, <4>2 DEF EndpointEarned
    <3>3. CASE ReadRequest(c) /\ ~Authorised(c)
      <4> DEFINE r == [conn[c] EXCEPT !.at = "writing", !.reply = PlainReply(conn[c].ask)]
      <4>1. PlainReply(conn[c].ask) \in {"closed", "431", "400", "405", "200", "404", "401"}
        BY DEF PlainReply
      <4>2. r \in Connection /\ r.at = "writing" /\ r.reply = PlainReply(conn[c].ask)
        BY <2>0, <4>1 DEF Connection
      <4>3. conn' = [conn EXCEPT ![c] = r] /\ conn[c].at = "reading"
        BY <1>b, <3>3 DEF ReadRequest
      <4> QED BY <4>1, <4>2, <4>3
    <3>4. CASE EnsureBrowser(c)
      <4>1. PICK answer \in {"error", "loopback", "elsewhere"} :
              conn' = [conn EXCEPT ![c].at = "writing", ![c].reply = ReplyTo(answer)]
        BY <3>4 DEF EnsureBrowser
      <4> DEFINE r == [conn[c] EXCEPT !.at = "writing", !.reply = ReplyTo(answer)]
      <4>2. r \in Connection /\ r.at = "writing" /\ r.reply \in {"loopback", "503"}
            /\ r.ask = conn[c].ask
        BY <2>0 DEF Connection, ReplyTo
      <4>3. conn' = [conn EXCEPT ![c] = r] /\ conn[c].at = "ensuring"
        BY <1>b, <3>4, <4>1 DEF EnsureBrowser
      <4>4. conn[c].ask = "token" /\ c \in ensured
        BY <1>a, <4>3 DEF AskedWithToken
      <4> QED BY <2>1, <4>2, <4>3, <4>4
    <3> QED BY <1>6, <3>1, <3>2, <3>3, <3>4
  <2>3. conn'[c] = r /\ \A d \in Conns \ {c} : conn'[d] = conn[d]
    BY <1>b, <2>2
  <2>4. c \in Busy(conn) <=> c \in Busy(conn)'
    BY <2>2, <2>3 DEF Busy
  <2>5. conn' \in [Conns -> Connection] /\ Busy(conn)' = Busy(conn)
    BY <1>a, <1>b, <2>2, <2>4, BusyMove
  <2>6. TypeOK' /\ PlacesReturn'
    BY <1>a, <2>1, <2>5 DEF TypeOK, PlacesReturn
  <2>7. LoopInv'
    BY <1>a, <2>1, <2>2, <2>3 DEF LoopInv
  <2>8. AskedWithToken' /\ EndpointEarned'
    BY <1>a, <2>1, <2>2, <2>3 DEF AskedWithToken, EndpointEarned
  <2> QED BY <1>a, <2>5, <2>6, <2>7, <2>8 DEF IInv
<1>7. ASSUME NEW c \in Conns, wrapper # "ended", WorkerEnds(c) PROVE IInv'
  <2>0. conn[c] \in Connection /\ conn[c].at = "writing" /\ c \in Busy(conn)
    BY <1>b, <1>7 DEF WorkerEnds, Busy
  <2>1. active' = active - 1 /\ UNCHANGED <<wrapper, loop, ensured>>
    BY <1>7 DEF WorkerEnds
  <2>2. PICK r \in Connection :
          /\ conn' = [conn EXCEPT ![c] = r]
          /\ r.at = "done" /\ r.ask = conn[c].ask /\ r.reply \in {conn[c].reply, "closed"}
    <3> DEFINE r1 == [conn[c] EXCEPT !.at = "done"]
               r2 == [conn[c] EXCEPT !.at = "done", !.reply = "closed"]
    <3>1. conn' = [conn EXCEPT ![c] = r1] \/ conn' = [conn EXCEPT ![c] = r2]
      BY <1>b, <1>7 DEF WorkerEnds, WriteJson
    <3>2. /\ r1 \in Connection /\ r1.at = "done" /\ r1.ask = conn[c].ask /\ r1.reply = conn[c].reply
          /\ r2 \in Connection /\ r2.at = "done" /\ r2.ask = conn[c].ask /\ r2.reply = "closed"
      BY <2>0 DEF Connection
    <3> QED BY <3>1, <3>2
  <2>3. conn'[c] = r /\ \A d \in Conns \ {c} : conn'[d] = conn[d]
    BY <1>b, <2>2
  <2>4. c \notin Busy(conn)'
    BY <2>2, <2>3 DEF Busy
  <2>5. /\ conn' \in [Conns -> Connection] /\ IsFiniteSet(Busy(conn)')
        /\ Cardinality(Busy(conn)') = Cardinality(Busy(conn)) - 1
        /\ Cardinality(Busy(conn)) > 0
    BY <1>a, <1>b, <2>0, <2>2, <2>4, BusyMove, ZenonT(60)
  <2>6. active' \in Nat /\ PlacesReturn'
    BY <1>a, <1>b, <1>c, <1>7, <2>1, <2>5, MaxConnectionsAssumption DEF PlacesReturn
  <2>7. TypeOK'
    BY <1>a, <2>1, <2>5, <2>6 DEF TypeOK
  <2>8. LoopInv'
    BY <1>a, <2>0, <2>1, <2>3 DEF LoopInv
  <2>9. AskedWithToken' /\ EndpointEarned'
    BY <1>a, <2>1, <2>2, <2>3 DEF AskedWithToken, EndpointEarned
  <2> QED BY <2>5, <2>6, <2>7, <2>8, <2>9 DEF IInv
<1>8. CASE UNCHANGED vars
  BY <1>a, <1>8 DEF vars, IInv, TypeOK, LoopInv, AskedWithToken, EndpointEarned, PlacesReturn
<1> QED BY <1>1, <1>2, <1>3, <1>4, <1>5, <1>6, <1>7, <1>8
     DEF Next, WrapperStep, LoopStep, Worker

\* The inductive invariant holds in every behaviour.
THEOREM InvHolds == Spec => []IInv
BY InitInv, NextInv, PTL DEF Spec

\* The atomic counter of the bootstrap is the number of connections that have a
\* worker or are about to get one, whichever way workers end, fail to start or
\* are refused, and never exceeds MAX_CONNECTIONS.
THEOREM PlacesReturnHolds == Spec => []PlacesReturn
BY InvHolds, PTL DEF IInv

\* handle_connection tells of a browser only a client that had the token, and
\* only of a loopback endpoint the daemon named for that request.
THEOREM EndpointEarnedHolds == Spec => []EndpointEarned
BY InvHolds, PTL DEF IInv
=============================================================================

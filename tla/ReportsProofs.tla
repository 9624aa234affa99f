---------------------------- MODULE ReportsProofs ----------------------------
(***************************************************************************)
(* Proofs about Reports for any DIDs, any bounds of the buffer and any     *)
(* number of values and cloud reads.                                       *)
(***************************************************************************)
EXTENDS Reports, FiniteSetTheorems, TLAPS

\* The types, with the queues as functions and the buffered DIDs finite.
Queues ==
    /\ wire \in [Dids -> Seq(Values)] /\ pend \in [Dids -> Seq(Values)]
    /\ buffer \in [Dids -> Seq(Values)]
    /\ \A d \in Dids : Len(buffer[d]) <= BufferMaxlen
Bounded == IsFiniteSet(Buffered) /\ Cardinality(Buffered) <= BufferMaxDids
Registered ==
    /\ handler \subseteq Configured /\ delivered \subseteq Dids /\ told \subseteq Dids
    /\ entity \in [Dids -> {"none", "added", "removed"}]
    /\ up \in BOOLEAN /\ calls \in 0..MaxCalls
Numbered ==
    /\ now \in [Dids -> Values] /\ answer \in [Dids -> Values]
    /\ shown \in [Dids -> Values] /\ received \in [Dids -> Values]
    /\ handed \in [Dids -> Values] /\ replayed \in [Dids -> Values]
    /\ seeded \in [Dids -> Values]

TInv == Queues /\ Bounded /\ Registered /\ Numbered

\* A DID with a handler has nothing buffered, and an entity that has got a
\* report is there or was.
Routed ==
    /\ \A d \in handler : buffer[d] = <<>>
    /\ \A d \in told : entity[d] # "none"

IInv == Routed /\ BufferHasNewest /\ NothingOldIsShown

-----------------------------------------------------------------------------
(* Sequences *)

\* A queue's ends are of its elements, and so is the rest.
LEMMA QueueEnds ==
    ASSUME NEW S, NEW s \in Seq(S), s # <<>>
    PROVE  Last(s) \in S /\ Head(s) \in S /\ Tail(s) \in Seq(S)
BY DEF Last

\* Append() of a full deque drops from the left: the buffer keeps its length
\* and ends with what was appended.
LEMMA BufferAppends ==
    ASSUME ReportsAssumption, NEW d, NEW v \in Values,
           buffer[d] \in Seq(Values), Len(buffer[d]) <= BufferMaxlen
    PROVE  /\ Buffer(d, v) \in Seq(Values) \ {<<>>}
           /\ Len(Buffer(d, v)) <= BufferMaxlen
           /\ Last(Buffer(d, v)) = v
<1> DEFINE s == Append(buffer[d], v)
<1>1. s \in Seq(Values) /\ Len(s) = Len(buffer[d]) + 1 /\ s[Len(s)] = v
  OBVIOUS
<1>2. BufferMaxlen \in Nat /\ BufferMaxlen >= 1 /\ Len(buffer[d]) \in Nat
  BY DEF ReportsAssumption
<1> HIDE DEF s
<1>3. CASE Len(s) > BufferMaxlen
  <2>1. Buffer(d, v) = Tail(s)
    BY <1>3 DEF Buffer, s
  <2>2. Len(s) >= 2 /\ Len(s) = BufferMaxlen + 1
    BY <1>1, <1>2, <1>3
  <2>3. Tail(s) \in Seq(Values) /\ Len(Tail(s)) = Len(s) - 1
    BY <1>1, <2>2
  <2>4. Tail(s)[Len(s) - 1] = s[Len(s)]
    BY <1>1, <2>2
  <2>5. QED BY <1>1, <2>1, <2>2, <2>3, <2>4 DEF Last
<1>4. CASE Len(s) <= BufferMaxlen
  <2>1. Buffer(d, v) = s
    BY <1>1, <1>2, <1>4 DEF Buffer, s
  <2>2. QED BY <1>1, <1>2, <1>4, <2>1 DEF Last
<1>5. QED BY <1>1, <1>2, <1>3, <1>4

-----------------------------------------------------------------------------
(* The types and the bounds of the buffer *)

\* A buffer with no other DIDs than before, or with one for which there is room.
LEMMA BoundedStep ==
    ASSUME ReportsAssumption, Bounded, NEW d,
           \/ Buffered' \subseteq Buffered
           \/ Buffered' \subseteq Buffered \cup {d} /\ Admitted(d)
    PROVE  Bounded'
<1>1. BufferMaxDids \in Nat
  BY DEF ReportsAssumption
<1>2. CASE Buffered' \subseteq Buffered
  BY <1>1, <1>2, FS_Subset, FS_CardinalityType DEF Bounded
<1>3. CASE Buffered' \subseteq Buffered \cup {d} /\ Admitted(d) /\ d \notin Buffered
  <2>1. IsFiniteSet(Buffered \cup {d})
        /\ Cardinality(Buffered \cup {d}) = Cardinality(Buffered) + 1
    BY <1>3, FS_AddElement DEF Bounded
  <2>2. Cardinality(Buffered) < BufferMaxDids
    BY <1>3 DEF Admitted
  <2>3. IsFiniteSet(Buffered') /\ Cardinality(Buffered') <= Cardinality(Buffered \cup {d})
    BY <1>3, <2>1, FS_Subset
  <2>4. Cardinality(Buffered) \in Nat /\ Cardinality(Buffered') \in Nat
    BY <2>3, FS_CardinalityType DEF Bounded
  <2>5. QED BY <1>1, <2>1, <2>2, <2>3, <2>4 DEF Bounded
<1>4. CASE Buffered' \subseteq Buffered \cup {d} /\ d \in Buffered
  <2>1. Buffered' \subseteq Buffered
    BY <1>4
  <2>2. QED BY <1>2, <2>1
<1>5. QED BY <1>2, <1>3, <1>4

\* The initial states.
LEMMA InitInv == ASSUME ReportsAssumption PROVE Init => TInv /\ IInv
<1> SUFFICES ASSUME Init PROVE TInv /\ IInv
  OBVIOUS
<1>1. BufferMaxlen \in Nat /\ BufferMaxDids \in Nat /\ MaxValue \in Nat \ {0}
      /\ MaxCalls \in Nat /\ Momentary \subseteq Dids
  BY DEF ReportsAssumption
<1>2. 0 \in Values /\ 1 \in Values
  BY <1>1 DEF Values
<1>3. <<>> \in Seq(Values) /\ Len(<<>>) = 0
  OBVIOUS
<1>4. Queues
  BY <1>1, <1>3 DEF Init, Queues
<1>5. Buffered = {}
  BY DEF Init, Buffered
<1>6. Bounded
  BY <1>1, <1>5, FS_EmptySet DEF Bounded
<1>7. Registered /\ Numbered
  BY <1>1, <1>2 DEF Init, Registered, Numbered
<1>8. IInv
  BY <1>1, <1>5
     DEF Init, IInv, Routed, BufferHasNewest, NothingOldIsShown, ReportsWin, NothingRefires
<1>9. QED BY <1>4, <1>6, <1>7, <1>8 DEF TInv

\* The buffer of the other DIDs is as before, and this one's is one that has
\* been admitted, emptied or left alone.
LEMMA BufferedChanges ==
    ASSUME Queues, NEW d \in Dids, NEW b, buffer' = [buffer EXCEPT ![d] = b]
    PROVE  /\ Buffered' \subseteq Buffered \cup {d}
           /\ b = <<>> => Buffered' \subseteq Buffered
BY DEF Queues, Buffered

\* A report that is received keeps the types.
LEMMA ReceiveTypes ==
    ASSUME ReportsAssumption, TInv, NEW d \in Dids, Receive(d)
    PROVE  TInv'
<1> DEFINE v == Head(wire[d])
<1>1. v \in Values /\ wire' \in [Dids -> Seq(Values)]
  BY QueueEnds DEF TInv, Queues, Receive
<1>2. received' \in [Dids -> Values]
  BY <1>1 DEF Receive, TInv, Numbered
<1> HIDE DEF v
<1>3. CASE d \in handler
  <2>1. Handle(d, v) /\ UNCHANGED buffer
    BY <1>3 DEF Receive, v
  <2>2. Queues' /\ Bounded'
    BY <1>1, <2>1 DEF TInv, Queues, Bounded, Buffered, Receive
  <2>3. Numbered' /\ Registered'
    BY <1>1, <1>2, <2>1 DEF TInv, Numbered, Registered, Handle, Receive
  <2>4. QED BY <2>2, <2>3 DEF TInv
<1>4. CASE d \notin handler
  <2>1. buffer' = IF Admitted(d) THEN [buffer EXCEPT ![d] = Buffer(d, v)] ELSE buffer
    BY <1>4 DEF Receive, v
  <2>2. UNCHANGED <<shown, handed, told>>
    BY <1>4 DEF Receive
  <2>3. /\ Buffer(d, v) \in Seq(Values)
        /\ Len(Buffer(d, v)) <= BufferMaxlen
    BY <1>1, BufferAppends DEF TInv, Queues
  <2>4. buffer' \in [Dids -> Seq(Values)] /\ \A e \in Dids : Len(buffer'[e]) <= BufferMaxlen
    BY <2>1, <2>3 DEF TInv, Queues
  <2>5. Queues'
    BY <1>1, <2>4 DEF TInv, Queues, Receive
  <2>6. Bounded'
    <3>1. CASE Admitted(d)
      BY <2>1, <3>1, BufferedChanges, BoundedStep DEF TInv
    <3>2. CASE ~Admitted(d)
      BY <2>1, <3>2 DEF TInv, Bounded, Buffered
    <3>3. QED BY <3>1, <3>2
  <2>7. Numbered' /\ Registered'
    BY <1>2, <2>2 DEF TInv, Numbered, Registered, Receive
  <2>8. QED BY <2>5, <2>6, <2>7 DEF TInv
<1>5. QED BY <1>3, <1>4

\* Every other step of a DID keeps the types.
LEMMA StepTypes ==
    ASSUME ReportsAssumption, TInv, NEW d \in Dids,
           \/ Change(d) \/ Register(d) \/ Unregister(d) \/ CloudRead(d)
           \/ Seeded(d) \/ AddEntity(d) \/ RemoveEntity(d)
    PROVE  TInv'
<1> USE DEF TInv
<1>1. CASE Change(d)
  <2>1. now' \in [Dids -> Values]
    BY <1>1 DEF Change, Numbered, Values, ReportsAssumption
  <2>2. wire' \in [Dids -> Seq(Values)]
    BY <1>1, <2>1 DEF Change, Queues
  <2>3. UNCHANGED <<up, coordVars, answer, calls, deviceVars, histVars>>
    BY <1>1 DEF Change
  <2>4. QED
    BY <2>1, <2>2, <2>3
       DEF Queues, Bounded, Registered, Numbered, Buffered, coordVars, deviceVars, histVars
<1>2. CASE Register(d)
  <2>1. handler' \subseteq Configured /\ buffer' = [buffer EXCEPT ![d] = <<>>]
    BY <1>2 DEF Register, Registered
  <2>2. buffer' \in [Dids -> Seq(Values)] /\ \A e \in Dids : Len(buffer'[e]) <= BufferMaxlen
    BY <2>1 DEF Queues, ReportsAssumption
  <2>3. replayed' \in [Dids -> Values]
    <3>1. 0 \in Values
      BY DEF ReportsAssumption, Values
    <3>2. buffer[d] # <<>> => Last(buffer[d]) \in Values
      BY QueueEnds DEF Queues
    <3>3. QED BY <1>2, <3>1, <3>2 DEF Register, Numbered
  <2>4. Bounded'
    BY <2>1, BufferedChanges, BoundedStep
  <2>5. UNCHANGED <<hubVars, answer, calls, deviceVars, received, handed, told, seeded>>
    BY <1>2 DEF Register
  <2>6. QED
    BY <2>1, <2>2, <2>3, <2>4, <2>5
       DEF Queues, Registered, Numbered, hubVars, deviceVars
<1>3. CASE Unregister(d)
  BY <1>3 DEF Unregister, Queues, Bounded, Registered, Numbered, Buffered, hubVars,
              deviceVars, histVars
<1>4. CASE CloudRead(d)
  <2>1. calls' \in 0..MaxCalls
    BY <1>4 DEF CloudRead, Registered, ReportsAssumption
  <2>2. answer' \in [Dids -> Values]
    BY <1>4 DEF CloudRead, Numbered
  <2>3. UNCHANGED <<hubVars, coordVars, deviceVars, histVars>>
    BY <1>4 DEF CloudRead
  <2>4. QED
    BY <2>1, <2>2, <2>3
       DEF Queues, Bounded, Registered, Numbered, Buffered, hubVars, coordVars,
           deviceVars, histVars
<1>5. CASE Seeded(d)
  <2>1. pend' \in [Dids -> Seq(Values)] /\ UNCHANGED shown
    BY <1>5 DEF Seeded, SeedInitialValue, Queues, Numbered
  <2>2. seeded' \in [Dids -> Values] /\ answer' \in [Dids -> Values]
    BY <1>5 DEF Seeded, Numbered, ReportsAssumption, Values
  <2>3. UNCHANGED <<hubVars, coordVars, calls, delivered, entity, received, handed, told, replayed>>
    BY <1>5 DEF Seeded
  <2>4. QED
    BY <2>1, <2>2, <2>3
       DEF Queues, Bounded, Registered, Numbered, Buffered, hubVars, coordVars
<1>6. CASE AddEntity(d)
  <2>1. pend' \in [Dids -> Seq(Values)]
    BY <1>6 DEF AddEntity, Queues
  <2>2. shown' \in [Dids -> Values]
    <3>1. pend[d] # <<>> => Last(pend[d]) \in Values
      BY QueueEnds DEF Queues
    <3>2. QED BY <1>6, <3>1 DEF AddEntity, Numbered
  <2>3. entity' \in [Dids -> {"none", "added", "removed"}] /\ delivered' \subseteq Dids
    BY <1>6 DEF AddEntity, Registered
  <2>4. UNCHANGED <<hubVars, coordVars, answer, calls, histVars>>
    BY <1>6 DEF AddEntity
  <2>5. QED
    BY <2>1, <2>2, <2>3, <2>4
       DEF Queues, Bounded, Registered, Numbered, Buffered, hubVars, coordVars, histVars
<1>7. CASE RemoveEntity(d)
  <2>1. entity' \in [Dids -> {"none", "added", "removed"}]
    BY <1>7 DEF RemoveEntity, Registered
  <2>2. UNCHANGED <<hubVars, coordVars, answer, calls, pend, delivered, shown, histVars>>
    BY <1>7 DEF RemoveEntity
  <2>3. QED
    BY <2>1, <2>2
       DEF Queues, Bounded, Registered, Numbered, Buffered, hubVars, coordVars, histVars
<1>8. QED
  BY <1>1, <1>2, <1>3, <1>4, <1>5, <1>6, <1>7

\* Every step keeps the types.
LEMMA NextTypes == ASSUME ReportsAssumption PROVE TInv /\ [Next]_vars => TInv'
<1> SUFFICES ASSUME TInv, [Next]_vars PROVE TInv'
  OBVIOUS
<1>1. CASE Tunnel
  <2>1. up' \in BOOLEAN /\ wire' \in [Dids -> Seq(Values)]
    BY <1>1 DEF Tunnel, TInv, Registered
  <2>2. QED
    BY <1>1, <2>1
       DEF Tunnel, TInv, Queues, Bounded, Registered, Numbered, Buffered, coordVars,
           deviceVars, histVars
<1>2. CASE \E d \in Dids : Step(d)
  BY <1>2, ReceiveTypes, StepTypes DEF Step
<1>3. CASE UNCHANGED vars
  BY <1>3 DEF TInv, Queues, Bounded, Registered, Numbered, Buffered, vars, hubVars,
              coordVars, deviceVars, histVars
<1>4. QED BY <1>1, <1>2, <1>3 DEF Next

\* The types, and with them the bounds of the buffer: it never holds more than
\* its reports per DID nor more than its DIDs, whatever the hub reports
\* (coordinator.py:690-701).
THEOREM TypeCorrect == ASSUME ReportsAssumption PROVE Spec => []TypeOK
<1>1. TInv => TypeOK
  BY DEF TInv, Queues, Bounded, Registered, Numbered, TypeOK
<1>2. Init => TInv
  BY InitInv
<1>3. QED BY <1>1, <1>2, NextTypes, PTL DEF Spec

-----------------------------------------------------------------------------
(* What is buffered and what is shown *)

\* A report that is received is the newest of the buffer or of the entity.
LEMMA ReceiveInv ==
    ASSUME ReportsAssumption, TInv, IInv, NEW d \in Dids, Receive(d)
    PROVE  IInv'
<1> DEFINE v == Head(wire[d])
<1>1. v \in Values /\ received' = [received EXCEPT ![d] = v]
  BY QueueEnds DEF TInv, Queues, Receive
<1>2. UNCHANGED <<handler, entity>>
  BY DEF Receive
<1> HIDE DEF v
<1>3. CASE d \in handler
  <2>1. Handle(d, v) /\ UNCHANGED buffer
    BY <1>3 DEF Receive, v
  <2>2. BufferHasNewest'
    BY <1>1, <1>3, <2>1
       DEF IInv, Routed, BufferHasNewest, Buffered, TInv, Numbered
  <2>3. NothingOldIsShown'
    BY <1>2, <2>1
       DEF IInv, Handle, NothingOldIsShown, ReportsWin, NothingRefires, TInv, Numbered,
           Registered, ReportsAssumption
  <2>4. Routed'
    BY <1>2, <2>1 DEF IInv, Routed, Handle, TInv, Registered
  <2>5. QED BY <2>2, <2>3, <2>4 DEF IInv
<1>4. CASE d \notin handler
  <2>1. buffer' = IF Admitted(d) THEN [buffer EXCEPT ![d] = Buffer(d, v)] ELSE buffer
    BY <1>4 DEF Receive, v
  <2>2. UNCHANGED <<shown, handed, told>>
    BY <1>4 DEF Receive
  <2>3. Last(Buffer(d, v)) = v
    BY <1>1, BufferAppends DEF TInv, Queues
  <2>4. BufferHasNewest'
    <3>1. CASE Admitted(d)
      BY <1>1, <2>1, <2>3, <3>1
         DEF IInv, BufferHasNewest, Buffered, TInv, Numbered, Queues
    <3>2. CASE ~Admitted(d)
      BY <1>1, <2>1, <3>2
         DEF Admitted, IInv, BufferHasNewest, Buffered, TInv, Numbered
    <3>3. QED BY <3>1, <3>2
  <2>5. NothingOldIsShown'
    BY <1>2, <2>2 DEF IInv, NothingOldIsShown, ReportsWin, NothingRefires
  <2>6. Routed'
    BY <1>2, <1>4, <2>1, <2>2 DEF IInv, Routed, TInv, Queues, Registered, ReportsAssumption
  <2>7. QED BY <2>4, <2>5, <2>6 DEF IInv
<1>5. QED BY <1>3, <1>4

\* The registration of a handler takes the buffer of its DID.
LEMMA RegisterInv ==
    ASSUME TInv, IInv, NEW d \in Dids, Register(d)
    PROVE  IInv'
<1>1. UNCHANGED <<entity, shown, received, handed, told>>
  BY DEF Register, deviceVars
<1>2. BufferHasNewest'
  BY <1>1 DEF Register, IInv, BufferHasNewest, Buffered, TInv, Queues
<1>3. Routed'
  BY <1>1 DEF Register, IInv, Routed, TInv, Queues
<1>4. NothingOldIsShown'
  BY <1>1 DEF IInv, NothingOldIsShown, ReportsWin, NothingRefires
<1>5. QED BY <1>2, <1>3, <1>4 DEF IInv

\* An entity that is added has had no report, and a momentary one takes no seed.
LEMMA AddEntityInv ==
    ASSUME ReportsAssumption, TInv, IInv, NEW d \in Dids, AddEntity(d)
    PROVE  IInv'
<1>1. UNCHANGED <<coordVars, received, handed, told>>
  BY DEF AddEntity, histVars
<1>2. d \notin told
  BY DEF AddEntity, IInv, Routed
<1>3. BufferHasNewest'
  BY <1>1 DEF IInv, BufferHasNewest, Buffered, coordVars
<1>4. Routed'
  BY <1>1, <1>2 DEF AddEntity, IInv, Routed, TInv, Registered, coordVars
<1>5. ReportsWin'
  BY <1>1, <1>2
     DEF AddEntity, IInv, NothingOldIsShown, ReportsWin, TInv, Registered, Numbered
<1>6. NothingRefires'
  BY <1>1, <1>2
     DEF AddEntity, ReplayAllowed, IInv, NothingOldIsShown, NothingRefires, TInv,
         Registered, Numbered, ReportsAssumption
<1>7. QED BY <1>3, <1>4, <1>5, <1>6 DEF IInv, NothingOldIsShown

\* Every step preserves the invariant.
LEMMA NextInv ==
    ASSUME ReportsAssumption PROVE TInv /\ IInv /\ [Next]_vars => IInv'
<1> SUFFICES ASSUME TInv, IInv, [Next]_vars PROVE IInv'
  OBVIOUS
<1> USE DEF coordVars, histVars, deviceVars
<1>1. ASSUME UNCHANGED <<handler, buffer, entity, shown, received, handed, told>>
      PROVE  IInv'
  BY <1>1 DEF IInv, Routed, BufferHasNewest, Buffered, NothingOldIsShown, ReportsWin,
              NothingRefires
<1>2. CASE Tunnel \/ UNCHANGED vars
  BY <1>1, <1>2 DEF Tunnel, vars
<1>3. ASSUME NEW d \in Dids, Step(d) PROVE IInv'
  <2>1. CASE Change(d) \/ CloudRead(d)
    BY <1>1, <2>1 DEF Change, CloudRead
  <2>2. CASE Seeded(d)
    BY <1>1, <2>2 DEF Seeded, SeedInitialValue
  <2>3. CASE Unregister(d)
    <3>1. handler' \subseteq handler
          /\ UNCHANGED <<buffer, entity, shown, received, handed, told>>
      BY <2>3 DEF Unregister
    <3>2. QED
      BY <3>1 DEF IInv, Routed, BufferHasNewest, Buffered, NothingOldIsShown,
                  ReportsWin, NothingRefires
  <2>4. CASE RemoveEntity(d)
    <3>1. entity' = [entity EXCEPT ![d] = "removed"]
          /\ UNCHANGED <<handler, buffer, shown, received, handed, told>>
      BY <2>4 DEF RemoveEntity
    <3>2. QED
      BY <3>1 DEF IInv, Routed, BufferHasNewest, Buffered, NothingOldIsShown,
                  ReportsWin, NothingRefires, TInv, Registered
  <2>5. QED
    BY <1>3, <2>1, <2>2, <2>3, <2>4, ReceiveInv, RegisterInv, AddEntityInv DEF Step
<1>4. QED BY <1>2, <1>3 DEF Next

\* The inductive invariant.
THEOREM ReportsInvariant == ASSUME ReportsAssumption PROVE Spec => [](TInv /\ IInv)
BY InitInv, NextTypes, NextInv, PTL DEF Spec

\* However full and however often it is emptied, the buffer of a DID ends with
\* the last report that came while nobody listened (coordinator.py:690-701).
THEOREM NewestIsBuffered == ASSUME ReportsAssumption PROVE Spec => []BufferHasNewest
<1>1. IInv => BufferHasNewest
  BY DEF IInv
<1>2. QED BY ReportsInvariant, <1>1, PTL

\* No cloud answer takes the place of a report, and no event fires for a value of
\* the past, in whatever order answers, reports and entities come
\* (device/base.py:187-204, 457-470).
THEOREM OldIsNotShown == ASSUME ReportsAssumption PROVE Spec => []NothingOldIsShown
<1>1. IInv => NothingOldIsShown
  BY DEF IInv
<1>2. QED BY ReportsInvariant, <1>1, PTL
=============================================================================

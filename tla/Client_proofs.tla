---------------------------- MODULE Client_proofs ----------------------------
(***************************************************************************)
(* Safety of ClaudeAIClient over one HttpSession, for any number of calls, *)
(* any set of the client's operations, any cookies, retries and intervals. *)
(*                                                                         *)
(* The invariant has four parts.  CallInv: where a call stands says what   *)
(* it may have done to the server; only a verb that may be repeated is     *)
(* ever backed off.  SlotInv: no slot lies after the last one given out.   *)
(* JarInv: what the storage will hold when its queue is empty is the jar   *)
(* in memory, or somebody still owes the save that makes it so, or a call  *)
(* was cut off.  SoloInv: beside open() on its own no other call is under  *)
(* way, so that the row it read is the one it updates.  CacheInv, on top   *)
(* of these: a reader that no update overtook has read the latest update.  *)
(***************************************************************************)
EXTENDS Client, TLAPS

\* What out may be.
Outs == {"none", "hit", "lost", "ValueError", "LoginError", "error"} \cup {op.reply : op \in Ops}

\* Before the request is with the transport.
Before == {"idle", "lookup", "purge", "load", "assign", "update", "opening", "wait"}
PCs == Before \cup {"sent", "backoff", "saving", "parse", "fill", "drop", "done"}

CallRecords == [pc : PCs, op : Ops \cup {<<>>}, row : Jars, slot : Nat, attempt : Nat,
                status : Statuses \cup {"none"}, out : Outs]
Writes == [by : Calls, row : Jars]

Types ==
    /\ opened \in BOOLEAN /\ org \in BOOLEAN
    /\ jar \in Jars /\ store \in Jars /\ writes \in Seq(Writes)
    /\ version \in 0..MaxVersion /\ last \in Nat /\ now \in Nat
    /\ call \in [Calls -> CallRecords]
    /\ effect \in [Calls -> Nat]

\* A call with record r, whose request the server has applied e times.
GoodCall(r, e) ==
    /\ r.pc = "idle" => r.op = <<>> /\ r.out = "none"
    /\ r.pc # "idle" => r.op \in Ops
    /\ r.pc \in Before \cup {"sent", "backoff", "saving", "parse"} => r.out # "lost"
    /\ r.attempt <= MaxRetries + 1
    /\ r.pc \in Before => r.attempt = 0 /\ e = 0
    /\ r.pc = "backoff" => r.attempt <= MaxRetries /\ r.op.verb \in RetryableVerbs
    /\ r.op \in Ops /\ r.op.verb \in {"POST", "PATCH"} => e <= 1 /\ (r.pc = "sent" => e = 0)

CallInv == \A c \in Calls : GoodCall(call[c], effect[c])

SlotInv == (\A c \in Calls : call[c].slot <= last) /\ SlotsSpaced

\* What the storage holds when it has carried out its writes.
Newest == IF writes = <<>> THEN store ELSE writes[Len(writes)].row

\* Will save the jar, unless it is cut off or a stream.
Owes(c) == call[c].pc \in {"update", "opening", "wait", "sent", "backoff"}

\* Nobody has opened the session yet.
Outside == {"idle", "lookup", "purge", "load", "assign", "done"}
Fresh == /\ ~opened
         /\ \A c \in Calls : call[c].pc \in Outside /\ ~Saved(c)

JarInv ==
    /\ \A i \in 1..Len(writes) : call[writes[i].by].pc \in {"opening", "saving"}
    /\ \A i, j \in 1..Len(writes) : writes[i].by = writes[j].by => i = j
    /\ \/ Fresh
       \/ Newest = jar
       \/ \E c \in Calls : Owes(c)
       \/ \E c \in Calls : Unsaved(c)
       \/ strayed # {}

\* open() on its own.
OpenOnly(c) == UnderWay(c) /\ call[c].op.mode = "open"

SoloInv == strayed = {} => \A o \in Calls : OpenOnly(o) =>
    /\ \A d \in Calls : d # o => ~UnderWay(d)
    /\ call[o].pc = "assign" => call[o].row = store
    /\ call[o].pc = "update" => jar = Merge(store, Initial)
    /\ call[o].pc = "opening" => \A i \in 1..Len(writes) : writes[i].row = jar

IInv == Types /\ CallInv /\ SlotInv /\ JarInv /\ SoloInv

---------------------------------------------------------------------------
(* Jars *)

\* The jar of a session that has not been opened.
LEMMA EmptyJar == <<>> \in Jars
<1>1. <<>> \in [{} -> 0..MaxVersion] /\ {} \in SUBSET CookieNames
  OBVIOUS
<1>2. QED
  BY <1>1 DEF Jars

\* The cookies the client was built with are a jar.
LEMMA InitialJar == Initial \in Jars
<1>1. Initial \in [DOMAIN Initial -> 0..MaxVersion] /\ DOMAIN Initial \in SUBSET CookieNames
  BY SessionAssumption
<1>2. QED
  BY <1>1 DEF Jars

\* dict.update on jars yields a jar.
LEMMA MergeJars ==
  ASSUME NEW f \in Jars, NEW g \in Jars
  PROVE  Merge(f, g) \in Jars
<1>1. PICK X \in SUBSET CookieNames : f \in [X -> 0..MaxVersion]
  BY DEF Jars
<1>2. PICK Y \in SUBSET CookieNames : g \in [Y -> 0..MaxVersion]
  BY DEF Jars
<1>3. Merge(f, g) \in [X \cup Y -> 0..MaxVersion] /\ X \cup Y \in SUBSET CookieNames
  BY <1>1, <1>2 DEF Merge
<1>4. QED
  BY <1>3 DEF Jars

\* dict.update with nothing.
LEMMA MergeEmpty ==
  ASSUME NEW f \in Jars
  PROVE  Merge(f, <<>>) = f
<1>1. PICK X \in SUBSET CookieNames : f \in [X -> 0..MaxVersion]
  BY DEF Jars
<1>2. DOMAIN f \cup DOMAIN <<>> = X
  BY <1>1
<1>3. Merge(f, <<>>) = [n \in X |-> f[n]]
  BY <1>2 DEF Merge
<1>4. QED
  BY <1>1, <1>3

---------------------------------------------------------------------------
(* Calls *)

\* What the invariant says of one call.
LEMMA CallType ==
  ASSUME IInv, NEW c \in Calls
  PROVE  /\ call[c] \in CallRecords /\ GoodCall(call[c], effect[c])
         /\ call[c].pc \in PCs /\ call[c].op \in Ops \cup {<<>>} /\ call[c].row \in Jars
         /\ call[c].slot \in Nat /\ call[c].attempt \in Nat /\ call[c].slot <= last
         /\ call[c].status \in Statuses \cup {"none"} /\ call[c].out \in Outs
         /\ last \in Nat /\ now \in Nat /\ effect[c] \in Nat
<1>1. call[c] \in CallRecords /\ last \in Nat /\ now \in Nat /\ effect[c] \in Nat
  BY DEF IInv, Types
<1>2. GoodCall(call[c], effect[c]) /\ call[c].slot <= last
  BY DEF IInv, CallInv, SlotInv
<1>3. QED
  BY <1>1, <1>2 DEF CallRecords

(* A call that takes no slot. *)
LEMMA Moved ==
  ASSUME IInv, NEW c \in Calls, NEW x \in CallRecords, call' = [call EXCEPT ![c] = x],
         last' = last, x.slot = call[c].slot, GoodCall(x, effect'[c]),
         \A d \in Calls \ {c} : effect'[d] = effect[d]
  PROVE  /\ call' \in [Calls -> CallRecords] /\ CallInv' /\ SlotInv'
         /\ \A d \in Calls : call'[d] = IF d = c THEN x ELSE call[d]
<1>1. /\ call' \in [Calls -> CallRecords]
      /\ \A d \in Calls : call'[d] = IF d = c THEN x ELSE call[d]
  BY DEF IInv, Types
<1>2. CallInv'
  <2> SUFFICES ASSUME NEW d \in Calls PROVE GoodCall(call'[d], effect'[d])
    BY DEF CallInv, GoodCall
  <2>1. CASE d = c
    BY <1>1, <2>1
  <2>2. CASE d # c
    <3>1. call'[d] = call[d] /\ effect'[d] = effect[d]
      BY <1>1, <2>2
    <3>2. QED
      BY <3>1, CallType
  <2>3. QED
    BY <2>1, <2>2
<1>3. \A d \in Calls : call'[d].slot = call[d].slot
  BY <1>1
<1>4. SlotInv'
  <2>1. \A d \in Calls : call'[d].slot <= last'
    BY <1>3 DEF IInv, SlotInv
  <2>2. SlotsSpaced'
    BY <1>3 DEF IInv, SlotInv, SlotsSpaced, Slotted
  <2>3. QED
    BY <2>1, <2>2 DEF SlotInv
<1>5. QED
  BY <1>1, <1>2, <1>4

(* A call that takes the next slot: it lies after all the others. *)
LEMMA Launched ==
  ASSUME IInv, NEW c \in Calls, NEW op \in Ops, Launch(c, op), call[c].pc \in Before, effect' = effect,
         call[c].out # "lost"
  PROVE  /\ call' \in [Calls -> CallRecords] /\ CallInv' /\ SlotInv' /\ last' \in Nat
         /\ \A d \in Calls : d # c => call'[d] = call[d]
         /\ call'[c].pc \in {"wait", "sent"} /\ call'[c].op = op /\ call'[c].out = call[c].out
<1> DEFINE w == IF Slot > now THEN "wait" ELSE "sent"
           n == IF Slot > now THEN 0 ELSE 1
           e == <<>>
           x == [call[c] EXCEPT !.op = op, !.row = e, !.slot = Slot, !.pc = w, !.attempt = n]
<1>1. /\ last' = Slot
      /\ call' = [call EXCEPT ![c].op = op, ![c].row = e, ![c].slot = Slot, ![c].pc = w,
                              ![c].attempt = n]
  BY DEF Launch
<1>2. last \in Nat /\ now \in Nat /\ Slot \in Nat /\ Slot >= last + MinInterval /\ Slot >= last
  <2>1. last \in Nat /\ now \in Nat /\ MinInterval \in Nat
    BY SessionAssumption DEF IInv, Types
  <2>2. QED
    BY <2>1 DEF Slot, Later
<1> HIDE DEF Slot
<1>3. call' = [call EXCEPT ![c] = x]
  <2>1. call \in [Calls -> CallRecords]
    BY DEF IInv, Types
  <2>2. QED
    BY <1>1, <2>1
<1>4. /\ x \in CallRecords /\ x.slot = Slot /\ x.op = op /\ x.out = call[c].out
      /\ x.pc \in {"wait", "sent"} /\ x.attempt \in Nat /\ x.attempt <= 1
      /\ x.pc = "wait" => x.attempt = 0
  <2>1. w \in {"wait", "sent"} /\ w \in PCs /\ n \in {0, 1} /\ (w = "wait" => n = 0)
    BY DEF PCs, Before
  <2>2. call[c] \in CallRecords
    BY CallType
  <2>a. e \in Jars /\ n \in Nat /\ Slot \in Nat /\ op \in Ops \cup {<<>>}
    BY <1>2, EmptyJar
  <2> HIDE DEF w, n, PCs, e
  <2>3. x \in CallRecords
    BY <2>1, <2>a, <2>2 DEF CallRecords
  <2>4. x.slot = Slot /\ x.op = op /\ x.out = call[c].out /\ x.pc = w /\ x.attempt = n
    BY <2>2 DEF CallRecords
  <2>5. QED
    BY <2>1, <2>3, <2>4
<1> HIDE DEF x
<1>5. /\ call' \in [Calls -> CallRecords]
      /\ \A d \in Calls : call'[d] = IF d = c THEN x ELSE call[d]
  BY <1>3, <1>4 DEF IInv, Types
<1>6. CallInv'
  <2>1. GoodCall(x, effect[c])
    <3>1. effect[c] = 0
      BY CallType DEF GoodCall
    <3>2. x.attempt <= MaxRetries + 1
      BY <1>4, SessionAssumption
    <3>3. QED
      BY <1>4, <3>1, <3>2 DEF GoodCall, Before
  <2>2. ASSUME NEW d \in Calls PROVE GoodCall(call'[d], effect'[d])
    <3>1. effect'[d] = effect[d] /\ GoodCall(call[d], effect[d])
      BY CallType
    <3>2. CASE d = c
      BY <1>5, <2>1, <3>1, <3>2
    <3>3. CASE d # c
      BY <1>5, <3>1, <3>3
    <3>4. QED
      BY <3>2, <3>3
  <2>3. QED
    BY <2>2 DEF CallInv, GoodCall
<1>7. \A d \in Calls : d # c => call'[d].slot = call[d].slot /\ call[d].slot \in Nat /\ call[d].slot <= last
  BY <1>5, CallType
<1>8. call'[c].slot = Slot
  BY <1>4, <1>5
<1>9. SlotInv'
  <2>1. \A d \in Calls : call'[d].slot <= last'
    <3>1. Slot <= Slot /\ \A d \in Calls : d # c => call'[d].slot <= Slot
      BY <1>2, <1>7
    <3>2. QED
      BY <1>1, <1>8, <3>1
  <2>2. \A d \in Calls : d # c => call'[d].slot + MinInterval <= call'[c].slot
    BY <1>2, <1>7, <1>8, SessionAssumption
  <2>3. ASSUME NEW d \in Calls, NEW b \in Calls, d # b, call'[d].slot > 0, call'[b].slot > 0
        PROVE  \/ call'[d].slot + MinInterval <= call'[b].slot
               \/ call'[b].slot + MinInterval <= call'[d].slot
    <3>1. CASE d = c \/ b = c
      BY <2>2, <2>3, <3>1
    <3>2. CASE d # c /\ b # c
      BY <1>7, <2>3, <3>2 DEF IInv, SlotInv, SlotsSpaced, Slotted
    <3>3. QED
      BY <3>1, <3>2
  <2>4. SlotsSpaced'
    BY <2>3 DEF SlotsSpaced, Slotted
  <2>5. QED
    BY <2>1, <2>4 DEF SlotInv
<1>10. QED
  BY <1>1, <1>2, <1>4, <1>5, <1>6, <1>9

---------------------------------------------------------------------------
(* Jar, storage and queue are left alone, and the call keeps what it owes. *)
LEMMA JarFrame ==
  ASSUME IInv, NEW c \in Calls, UNCHANGED <<jar, store, writes>>,
         \A d \in Calls : d # c => call'[d] = call[d],
         call[c].pc \in {"opening", "saving"} => call'[c].pc \in {"opening", "saving"},
         Owes(c) => Owes(c)' \/ Unsaved(c)',
         Unsaved(c) => Unsaved(c)',
         Fresh => ~opened' /\ call'[c].pc \in Outside /\ ~Saved(c)',
         strayed' = {} => strayed = {}
  PROVE  JarInv'
<1>1. \A i \in 1..Len(writes) : writes[i].by \in Calls
  <2>1. writes \in Seq(Writes)
    BY DEF IInv, Types
  <2>2. \A i \in 1..Len(writes) : writes[i] \in Writes
    BY <2>1
  <2>3. QED
    BY <2>2 DEF Writes
<1>2. \A i \in 1..Len(writes) : call'[writes[i].by].pc \in {"opening", "saving"}
  BY <1>1 DEF IInv, JarInv
<1>3. \A i, j \in 1..Len(writes) : writes[i].by = writes[j].by => i = j
  BY DEF IInv, JarInv
<1>4. Newest' = Newest
  BY DEF Newest
<1>5. \A d \in Calls : d # c => (Owes(d)' <=> Owes(d)) /\ (Unsaved(d)' <=> Unsaved(d)) /\ (Saved(d)' <=> Saved(d))
  BY DEF Owes, Unsaved, Saved
<1>6. Fresh => Fresh'
  BY <1>5 DEF Fresh
<1>7. (\E d \in Calls : Owes(d)) => \E d \in Calls : Owes(d)' \/ Unsaved(d)'
  BY <1>5
<1>8. (\E d \in Calls : Unsaved(d)) => \E d \in Calls : Unsaved(d)'
  BY <1>5
<1>9. Fresh \/ Newest = jar \/ (\E d \in Calls : Owes(d)) \/ (\E d \in Calls : Unsaved(d)) \/ strayed # {}
  BY DEF IInv, JarInv
<1>10. \/ Fresh' \/ Newest' = jar' \/ (\E d \in Calls : Owes(d)') \/ (\E d \in Calls : Unsaved(d)')
       \/ strayed' # {}
  BY <1>4, <1>6, <1>7, <1>8, <1>9
<1>11. QED
  BY <1>2, <1>3, <1>10 DEF JarInv

(* A call under way that goes on, to a place SoloInv does not speak of. *)
LEMMA SoloFrame ==
  ASSUME IInv, NEW c \in Calls, UnderWay(c), strayed' = {} => strayed = {},
         \A d \in Calls : d # c => call'[d] = call[d],
         call'[c].op = call[c].op, call'[c].pc \notin {"assign", "update", "opening"}
  PROVE  SoloInv'
<1> SUFFICES ASSUME strayed' = {}, NEW o \in Calls, OpenOnly(o)'
             PROVE  o = c /\ \A d \in Calls : d # c => ~UnderWay(d)'
  BY DEF SoloInv
<1>1. \A d \in Calls : d # c => (UnderWay(d)' <=> UnderWay(d)) /\ (OpenOnly(d)' <=> OpenOnly(d))
  BY DEF UnderWay, OpenOnly
<1>2. OpenOnly(c)' => OpenOnly(c)
  BY DEF OpenOnly
<1>3. o = c
  BY <1>1 DEF IInv, SoloInv
<1>4. QED
  BY <1>1, <1>2, <1>3 DEF IInv, SoloInv

(* A call that ends, or fails, while open() on its own goes on. *)
LEMMA SoloEnd ==
  ASSUME IInv, NEW c \in Calls, strayed' = {} => strayed = {}, UNCHANGED <<jar, store, writes>>,
         \A d \in Calls : d # c => call'[d] = call[d], call'[c].pc = "done"
  PROVE  SoloInv'
<1>1. \A d \in Calls : d # c => (UnderWay(d)' <=> UnderWay(d)) /\ (OpenOnly(d)' <=> OpenOnly(d))
  BY DEF UnderWay, OpenOnly
<1>2. ~UnderWay(c)' /\ ~OpenOnly(c)'
  BY DEF UnderWay, OpenOnly
<1>3. QED
  BY <1>1, <1>2 DEF IInv, SoloInv

(* Beside open() on its own the queue holds its own writes. *)
LEMMA SoloQueue ==
  ASSUME IInv, strayed = {}, NEW o \in Calls, OpenOnly(o)
  PROVE  /\ \A i \in 1..Len(writes) : writes[i].by = o
         /\ call[o].pc \notin {"opening", "saving"} => writes = <<>> /\ Newest = store
<1>1. writes \in Seq(Writes)
  BY DEF IInv, Types
<1>2. \A i \in 1..Len(writes) : writes[i] \in Writes
  BY <1>1
<1>3. \A i \in 1..Len(writes) : writes[i].by \in Calls
  BY <1>2 DEF Writes
<1>4. \A i \in 1..Len(writes) : UnderWay(writes[i].by)
  BY <1>3 DEF IInv, JarInv, UnderWay
<1>5. \A i \in 1..Len(writes) : writes[i].by = o
  BY <1>3, <1>4 DEF IInv, SoloInv
<1>6. ASSUME call[o].pc \notin {"opening", "saving"} PROVE writes = <<>>
  <2>1. \A i \in 1..Len(writes) : call[o].pc \in {"opening", "saving"}
    BY <1>5 DEF IInv, JarInv
  <2>2. Len(writes) = 0
    <3>1. Len(writes) \in Nat /\ (Len(writes) # 0 => 1 \in 1..Len(writes))
      BY <1>1
    <3>2. QED
      BY <1>6, <2>1, <3>1
  <2>3. QED
    BY <1>1, <2>2
<1>7. QED
  BY <1>5, <1>6 DEF Newest

(* The words the model uses. *)
LEMMA Words ==
  /\ Before \subseteq PCs /\ {"sent", "backoff", "saving", "parse", "fill", "drop", "done"} \subseteq PCs
  /\ {"idle", "lookup", "purge", "load", "assign", "update", "opening", "wait"} \subseteq PCs
  /\ {"none", "hit", "lost", "ValueError", "LoginError", "error"} \subseteq Outs
  /\ \A op \in Ops : op.reply \in Outs
BY DEF PCs, Before, Outs

(* A call at another place, with another operation, with another outcome. *)
At(r, p) == [r EXCEPT !.pc = p]
Doing(r, o, p) == [r EXCEPT !.op = o, !.pc = p]
Ending(r, p, u) == [r EXCEPT !.pc = p, !.out = u]
Failing(r, o, p, u) == [r EXCEPT !.op = o, !.pc = p, !.out = u]

\* The fields of a call that fails while it does another operation.
LEMMA FailingFacts ==
  ASSUME IInv, NEW c \in Calls, NEW o \in Ops \cup {<<>>}, NEW p \in PCs, NEW u \in Outs
  PROVE  LET x == Failing(call[c], o, p, u)
         IN /\ x \in CallRecords /\ x.op = o /\ x.pc = p
            /\ x.out = u /\ x.slot = call[c].slot /\ x.attempt = call[c].attempt
<1>1. call[c] \in CallRecords /\ call \in [Calls -> CallRecords]
  BY DEF IInv, Types
<1>2. LET x == [call[c] EXCEPT !.op = o, !.pc = p, !.out = u]
      IN /\ x \in CallRecords /\ x.op = o /\ x.pc = p
         /\ x.out = u /\ x.slot = call[c].slot /\ x.attempt = call[c].attempt
  BY <1>1 DEF CallRecords
<1>3. QED
  BY <1>2 DEF Failing

\* The fields of a call that goes on to another operation.
LEMMA DoingFacts ==
  ASSUME IInv, NEW c \in Calls, NEW o \in Ops \cup {<<>>}, NEW p \in PCs
  PROVE  LET x == Doing(call[c], o, p)
         IN /\ x \in CallRecords /\ x.op = o /\ x.pc = p
            /\ x.out = call[c].out /\ x.slot = call[c].slot /\ x.attempt = call[c].attempt
<1>1. call[c] \in CallRecords /\ call \in [Calls -> CallRecords]
  BY DEF IInv, Types
<1>2. LET x == [call[c] EXCEPT !.op = o, !.pc = p]
      IN /\ x \in CallRecords /\ x.op = o /\ x.pc = p
         /\ x.out = call[c].out /\ x.slot = call[c].slot /\ x.attempt = call[c].attempt
  BY <1>1 DEF CallRecords
<1>3. QED
  BY <1>2 DEF Doing

\* The fields of a call that goes on to another point.
LEMMA AtFacts ==
  ASSUME IInv, NEW c \in Calls, NEW p \in PCs
  PROVE  LET x == At(call[c], p)
         IN /\ x \in CallRecords /\ x.op = call[c].op /\ x.pc = p
            /\ x.out = call[c].out /\ x.slot = call[c].slot /\ x.attempt = call[c].attempt
<1>1. call[c] \in CallRecords /\ call \in [Calls -> CallRecords]
  BY DEF IInv, Types
<1>2. LET x == [call[c] EXCEPT !.pc = p]
      IN /\ x \in CallRecords /\ x.op = call[c].op /\ x.pc = p
         /\ x.out = call[c].out /\ x.slot = call[c].slot /\ x.attempt = call[c].attempt
  BY <1>1 DEF CallRecords
<1>3. QED
  BY <1>2 DEF At

\* The fields of a call that ends.
LEMMA EndingFacts ==
  ASSUME IInv, NEW c \in Calls, NEW p \in PCs, NEW u \in Outs
  PROVE  LET x == Ending(call[c], p, u)
         IN /\ x \in CallRecords /\ x.op = call[c].op /\ x.pc = p
            /\ x.out = u /\ x.slot = call[c].slot /\ x.attempt = call[c].attempt
<1>1. call[c] \in CallRecords /\ call \in [Calls -> CallRecords]
  BY DEF IInv, Types
<1>2. LET x == [call[c] EXCEPT !.pc = p, !.out = u]
      IN /\ x \in CallRecords /\ x.op = call[c].op /\ x.pc = p
         /\ x.out = u /\ x.slot = call[c].slot /\ x.attempt = call[c].attempt
  BY <1>1 DEF CallRecords
<1>3. QED
  BY <1>2 DEF Ending

(* A call that moves without a request: to another place, with another     *)
(* operation or outcome.                                                   *)
LEMMA Walk ==
  ASSUME IInv, NEW c \in Calls, NEW x \in CallRecords, call' = [call EXCEPT ![c] = x],
         x.slot = call[c].slot, x.attempt = call[c].attempt,
         UNCHANGED <<last, effect, jar, store, writes, opened>>,
         IF call[c].pc = "idle" THEN x.op \in Ops ELSE x.op = call[c].op,
         call[c].pc \in {"idle", "lookup", "purge", "load"},
         x.pc \in {"lookup", "purge", "load", "assign", "done"}, 
         x.out \in {call[c].out, "hit", "ValueError", "LoginError"},
         strayed' = {} => strayed = {}
  PROVE  /\ call' \in [Calls -> CallRecords] /\ CallInv' /\ SlotInv' /\ JarInv'
         /\ \A d \in Calls : call'[d] = IF d = c THEN x ELSE call[d]
<1>1. GoodCall(call[c], effect[c])
  BY CallType
<1>2. x.op \in Ops /\ x.out # "lost" /\ call[c].out # "lost"
  <2>1. call[c].out # "lost"
    BY <1>1 DEF GoodCall, Before
  <2>2. call[c].pc # "idle" => call[c].op \in Ops
    BY <1>1 DEF GoodCall
  <2>3. x.op \in Ops
    BY <2>2
  <2>4. QED
    BY <2>1, <2>3
<1>3. GoodCall(x, effect[c])
  <2>1. effect[c] = 0 /\ x.attempt = 0
    BY <1>1 DEF GoodCall, Before
  <2>2. x.attempt <= MaxRetries + 1 /\ effect[c] <= 1
    BY <2>1, SessionAssumption
  <2>3. QED
    BY <1>2, <2>1, <2>2 DEF GoodCall
<1>4. /\ call' \in [Calls -> CallRecords] /\ CallInv' /\ SlotInv'
      /\ \A d \in Calls : call'[d] = IF d = c THEN x ELSE call[d]
  BY <1>3, Moved
<1>5. JarInv'
  <2>1. ~Owes(c)
    BY DEF Owes
  <2>2. Unsaved(c) => Unsaved(c)'
    <3>1. call[c].pc = "idle" => ~Unsaved(c)
      BY <1>1, <1>2 DEF Unsaved, GoodCall
    <3>2. call[c].pc # "idle" => call'[c].op = call[c].op
      BY <1>4
    <3>3. QED
      BY <1>2, <3>1, <3>2 DEF Unsaved
  <2>3. Fresh => ~opened' /\ call'[c].pc \in Outside /\ ~Saved(c)'
    BY <1>4 DEF Fresh, Outside, Saved
  <2>4. QED
    BY <1>4, <2>1, <2>2, <2>3, JarFrame
<1>6. QED
  BY <1>4, <1>5

(* A call that takes its slot leaves the jar to be saved. *)
LEMMA LaunchOwes ==
  ASSUME IInv, NEW c \in Calls, NEW op \in Ops, Launch(c, op), effect' = effect,
         call[c].pc \in {"idle", "lookup", "purge", "assign", "update", "opening"},
         call[c].pc = "idle" \/ op = call[c].op
  PROVE  /\ call' \in [Calls -> CallRecords] /\ CallInv' /\ SlotInv' /\ last' \in Nat
         /\ \A d \in Calls : d # c => call'[d] = call[d]
         /\ Owes(c)' /\ (Unsaved(c) => Unsaved(c)')
         /\ call'[c].op = op /\ call'[c].pc \in {"wait", "sent"}
<1>1. call[c].pc \in Before /\ GoodCall(call[c], effect[c])
  BY CallType DEF Before
<1>2. call[c].out # "lost" /\ (call[c].pc = "idle" => ~Unsaved(c))
  BY <1>1 DEF GoodCall, Unsaved
<1>3. /\ call' \in [Calls -> CallRecords] /\ CallInv' /\ SlotInv' /\ last' \in Nat
      /\ \A d \in Calls : d # c => call'[d] = call[d]
      /\ call'[c].pc \in {"wait", "sent"} /\ call'[c].op = op /\ call'[c].out = call[c].out
  BY <1>1, <1>2, Launched
<1>4. QED
  BY <1>2, <1>3 DEF Owes, Unsaved

(* The session is open: a request takes its slot, open() returns. *)
LEMMA Proceeded ==
  ASSUME IInv, NEW c \in Calls, NEW op \in Ops, Proceed(c, op), effect' = effect,
         call[c].pc \in {"idle", "lookup", "purge", "assign", "update", "opening"},
         call[c].pc = "idle" \/ op = call[c].op
  PROVE  /\ call' \in [Calls -> CallRecords] /\ CallInv' /\ SlotInv' /\ last' \in Nat
         /\ \A d \in Calls : d # c => call'[d] = call[d]
         /\ Unsaved(c) => Unsaved(c)'
         /\ call'[c].op = op
         /\ op.mode # "open" => Owes(c)' /\ call'[c].pc \in {"wait", "sent"}
         /\ op.mode = "open" => call'[c].pc = "done"
<1>1. CASE op.mode # "open"
  <2>1. Launch(c, op)
    BY <1>1 DEF Proceed
  <2>2. QED
    BY <1>1, <2>1, LaunchOwes
<1>2. CASE op.mode = "open"
  <2> DEFINE e == <<>>
             u == op.reply
             x == [call[c] EXCEPT !.op = op, !.row = e, !.pc = "done", !.out = u]
  <2>1. call' = [call EXCEPT ![c].op = op, ![c].row = e, ![c].pc = "done", ![c].out = u] /\ last' = last
    BY <1>2 DEF Proceed
  <2>2. "done" \in PCs /\ u \in Outs /\ e \in Jars /\ op \in Ops \cup {<<>>} /\ call[c] \in CallRecords
    BY Words, EmptyJar, CallType
  <2> HIDE DEF e, u
  <2>3. /\ x \in CallRecords /\ x.op = op /\ x.pc = "done" /\ x.out = u
        /\ x.slot = call[c].slot /\ x.attempt = call[c].attempt
    BY <2>2 DEF CallRecords
  <2>4. call' = [call EXCEPT ![c] = x]
    BY <2>1 DEF IInv, Types
  <2> HIDE DEF x
  <2>5. GoodCall(call[c], effect[c]) /\ call[c].out # "lost" /\ effect[c] = 0 /\ x.attempt = 0
    BY <2>3, CallType DEF GoodCall, Before
  <2>6. GoodCall(x, effect'[c])
    <3>1. x.attempt <= MaxRetries + 1 /\ effect'[c] <= 1
      BY <2>5, SessionAssumption
    <3>2. QED
      BY <2>3, <2>5, <3>1 DEF GoodCall, Before
  <2>7. /\ call' \in [Calls -> CallRecords] /\ CallInv' /\ SlotInv'
        /\ \A d \in Calls : call'[d] = IF d = c THEN x ELSE call[d]
    BY <2>1, <2>3, <2>4, <2>6, Moved
  <2>8. Unsaved(c) => Unsaved(c)'
    <3>1. call[c].pc = "idle" => ~Unsaved(c)
      BY <2>5 DEF Unsaved
    <3>2. QED
      BY <2>3, <2>5, <2>7, <3>1 DEF Unsaved
  <2>9. last' \in Nat
    BY <2>1 DEF IInv, Types
  <2>10. QED
    BY <1>2, <2>3, <2>7, <2>8, <2>9
<1>3. QED
  BY <1>1, <1>2

(* _require_org, and the session opened or not. *)
LEMMA Issued ==
  ASSUME IInv, NEW c \in Calls, NEW op \in Ops, Issue(c, op),
         call[c].pc \in {"idle", "lookup", "purge"}, call[c].pc = "idle" \/ op = call[c].op,
         UNCHANGED <<effect, jar, store, writes, opened>>, strayed' = {} => strayed = {}
  PROVE  /\ call' \in [Calls -> CallRecords] /\ CallInv' /\ SlotInv' /\ JarInv' /\ last' \in Nat
         /\ \A d \in Calls : d # c => call'[d] = call[d]
         /\ call'[c].op = op /\ call'[c].pc \in {"load", "wait", "sent", "done"}
<1>1. last \in Nat
  BY DEF IInv, Types
<1>2. CASE op.org /\ ~org
  <2> DEFINE x == Failing(call[c], op, "done", "ValueError")
  <2>1. /\ x \in CallRecords /\ x.op = op /\ x.pc = "done" /\ x.out = "ValueError"
        /\ x.slot = call[c].slot /\ x.attempt = call[c].attempt
    <3>1. op \in Ops \cup {<<>>} /\ "done" \in PCs /\ "ValueError" \in Outs
      BY Words
    <3>2. QED
      BY <3>1, FailingFacts
  <2>2. call' = [call EXCEPT ![c] = x] /\ last' = last
    BY <1>2 DEF Issue, IInv, Types, Failing
  <2> HIDE DEF x
  <2>3. QED
    BY <1>1, <2>1, <2>2, Walk
<1>3. CASE ~(op.org /\ ~org) /\ opened
  <2>1. Proceed(c, op)
    BY <1>3 DEF Issue, Enter
  <2>2. /\ call' \in [Calls -> CallRecords] /\ CallInv' /\ SlotInv' /\ last' \in Nat
        /\ \A d \in Calls : d # c => call'[d] = call[d]
        /\ (Unsaved(c) => Unsaved(c)') /\ call'[c].op = op
        /\ call'[c].pc \in {"wait", "sent", "done"}
    BY <2>1, Proceeded
  <2>3. JarInv'
    <3>1. ~Fresh /\ ~Owes(c)
      BY <1>3 DEF Fresh, Owes
    <3>2. QED
      BY <2>2, <3>1, JarFrame
  <2>4. QED
    BY <2>2, <2>3
<1>4. CASE ~(op.org /\ ~org) /\ ~opened
  <2> DEFINE x == Doing(call[c], op, "load")
  <2>1. /\ x \in CallRecords /\ x.op = op /\ x.pc = "load" /\ x.out = call[c].out
        /\ x.slot = call[c].slot /\ x.attempt = call[c].attempt
    <3>1. op \in Ops \cup {<<>>} /\ "load" \in PCs
      BY Words
    <3>2. QED
      BY <3>1, DoingFacts
  <2>2. call' = [call EXCEPT ![c] = x] /\ last' = last
    BY <1>4 DEF Issue, Enter, IInv, Types, Doing
  <2> HIDE DEF x
  <2>3. QED
    BY <1>1, <2>1, <2>2, Walk
<1>5. QED
  BY <1>2, <1>3, <1>4

---------------------------------------------------------------------------
(* One lemma for each action. *)

\* The initial states satisfy the invariant.
LEMMA InitIInv == Init => IInv
<1> SUFFICES ASSUME Init PROVE IInv
  OBVIOUS
<1>1. /\ call = [c \in Calls |-> NoCall] /\ writes = <<>> /\ version = 0 /\ now = MinInterval
      /\ store = [n \in CookieNames |-> 0]
      /\ \/ opened = FALSE /\ jar = <<>> /\ last = 0
         \/ opened = TRUE /\ jar = store /\ last = now
  BY DEF Init, SessionInit
<1>2. store \in Jars
  <2>1. store \in [CookieNames -> 0..MaxVersion] /\ CookieNames \in SUBSET CookieNames
    BY <1>1, SessionAssumption
  <2>2. QED
    BY <2>1 DEF Jars
<1>3. /\ NoCall \in CallRecords /\ NoCall.pc = "idle" /\ NoCall.op = <<>> /\ NoCall.out = "none"
      /\ NoCall.slot = 0 /\ NoCall.attempt = 0
  <2>1. "idle" \in PCs /\ "none" \in Outs /\ <<>> \in Jars
    BY Words, EmptyJar
  <2> HIDE DEF PCs, Outs
  <2>2. NoCall \in CallRecords
    BY <2>1 DEF CallRecords, NoCall
  <2>3. QED
    BY <2>2 DEF NoCall
<1>4. Types
  <2>1. version \in 0..MaxVersion /\ now \in Nat /\ last \in Nat /\ jar \in Jars /\ opened \in BOOLEAN
    <3>1. version \in 0..MaxVersion /\ now \in Nat
      BY <1>1, SessionAssumption
    <3>2. last \in Nat /\ opened \in BOOLEAN
      <4>1. last = 0 \/ last = now
        BY DEF Init, SessionInit
      <4>2. opened = FALSE \/ opened = TRUE
        BY DEF Init, SessionInit
      <4>3. last \in Nat
        BY <3>1, <4>1
      <4>4. QED
        BY <4>2, <4>3
    <3>3. CASE jar = <<>>
      BY <3>1, <3>2, <3>3, EmptyJar
    <3>4. CASE jar = store
      BY <1>2, <3>1, <3>2, <3>4
    <3>5. QED
      BY <1>1, <3>3, <3>4
  <2>2. call \in [Calls -> CallRecords] /\ writes \in Seq(Writes)
    BY <1>1, <1>3
  <2>3. org \in BOOLEAN /\ effect \in [Calls -> Nat]
    BY DEF Init, SessionInit
  <2>4. QED
    BY <1>2, <2>1, <2>2, <2>3 DEF Types
<1>5. CallInv
  <2>1. \A c \in Calls : call[c] = NoCall /\ effect[c] = 0
    BY <1>1 DEF Init
  <2>2. GoodCall(NoCall, 0)
    <3>1. 0 <= MaxRetries + 1 /\ 0 <= 1
      BY SessionAssumption
    <3>2. QED
      BY <1>3, <3>1 DEF GoodCall
  <2> HIDE DEF NoCall
  <2>3. QED
    BY <2>1, <2>2 DEF CallInv
<1>6. SlotInv
  <2>1. \A c \in Calls : call[c].slot = 0 /\ 0 <= last
    <3>1. last \in Nat
      BY <1>4 DEF Types
    <3>2. \A c \in Calls : call[c] = NoCall
      BY <1>1
    <3>3. NoCall.slot = 0 /\ 0 <= last
      BY <1>3, <3>1
    <3> HIDE DEF NoCall
    <3>4. QED
      BY <3>2, <3>3
  <2>2. QED
    BY <2>1 DEF SlotInv, SlotsSpaced, Slotted
<1>7. SoloInv
  <2>1. \A c \in Calls : call[c].pc = "idle"
    BY <1>1, <1>3
  <2>2. QED
    BY <2>1 DEF SoloInv, OpenOnly, UnderWay
<1>8. JarInv
  <2>1. Len(writes) = 0 /\ Newest = store
    BY <1>1 DEF Newest
  <2>2. \A c \in Calls : call[c].pc = "idle" /\ call[c].out = "none"
    BY <1>1, <1>3
  <2>3. Fresh \/ Newest = jar
    BY <1>1, <2>1, <2>2 DEF Fresh, Outside, Saved
  <2>4. QED
    BY <2>1, <2>3 DEF JarInv
<1>9. QED
  BY <1>4, <1>5, <1>6, <1>7, <1>8 DEF IInv

\* A call of the facade begins.
LEMMA BeginStep ==
  ASSUME IInv, NEW c \in Calls, NEW op \in Ops, Begin(c, op)
  PROVE  IInv'
<1>1. /\ UNCHANGED <<opened, jar, store, writes, version, now, org, effect>>
      /\ call[c].pc = "idle"
  BY DEF Begin, clientVars
<1>2. /\ strayed' = {} => strayed = {}
      /\ strayed' = {} => \A d \in Calls : UnderWay(d) => op.mode # "open" /\ call[d].op.mode # "open"
  BY DEF Begin
<1>3. /\ call' \in [Calls -> CallRecords] /\ CallInv' /\ SlotInv' /\ JarInv' /\ last' \in Nat
      /\ \A d \in Calls : d # c => call'[d] = call[d]
      /\ call'[c].op = op /\ call'[c].pc \in {"lookup", "load", "wait", "sent", "done"}
  <2>1. CASE op.asks = None
    BY <1>1, <1>2, <2>1, Issued DEF Begin
  <2>2. CASE op.asks # None
    <3> DEFINE x == Doing(call[c], op, "lookup")
    <3>1. /\ x \in CallRecords /\ x.op = op /\ x.pc = "lookup" /\ x.out = call[c].out
          /\ x.slot = call[c].slot /\ x.attempt = call[c].attempt
      <4>1. op \in Ops \cup {<<>>} /\ "lookup" \in PCs
        BY Words
      <4>2. QED
        BY <4>1, DoingFacts
    <3>2. call' = [call EXCEPT ![c] = x] /\ last' = last /\ last \in Nat
      BY <2>2 DEF Begin, IInv, Types, Doing
    <3> HIDE DEF x
    <3>3. /\ call' \in [Calls -> CallRecords] /\ CallInv' /\ SlotInv' /\ JarInv'
          /\ \A d \in Calls : call'[d] = IF d = c THEN x ELSE call[d]
      BY <1>1, <1>2, <3>1, <3>2, Walk
    <3>4. QED
      BY <3>1, <3>2, <3>3
  <2>3. QED
    BY <2>1, <2>2
<1>4. SoloInv'
  <2> SUFFICES ASSUME strayed' = {}, NEW o \in Calls, OpenOnly(o)'
               PROVE  o = c /\ \A d \in Calls : d # c => ~UnderWay(d)'
    BY <1>3 DEF SoloInv
  <2>1. \A d \in Calls : d # c => (UnderWay(d)' <=> UnderWay(d)) /\ (OpenOnly(d)' <=> OpenOnly(d))
    BY <1>3 DEF UnderWay, OpenOnly
  <2>2. o = c
    BY <1>2, <2>1 DEF OpenOnly
  <2>3. op.mode = "open"
    BY <1>3, <2>2 DEF OpenOnly
  <2>4. QED
    BY <1>2, <2>1, <2>2, <2>3
<1>5. Types'
  BY <1>1, <1>3 DEF IInv, Types
<1>6. QED
  BY <1>3, <1>4, <1>5 DEF IInv

\* A link that does not parse raises before anything is sent.
LEMMA BadLinkStep ==
  ASSUME IInv, NEW c \in Calls, NEW op \in Ops, BadLink(c, op)
  PROVE  IInv'
<1>1. /\ UNCHANGED <<opened, jar, store, writes, version, last, now, strayed, org, cache, effect, acked>>
      /\ call[c].pc = "idle"
  BY DEF BadLink, clientVars
<1> DEFINE x == Failing(call[c], op, "done", "LoginError")
<1>2. /\ x \in CallRecords /\ x.op = op /\ x.pc = "done" /\ x.out = "LoginError"
      /\ x.slot = call[c].slot /\ x.attempt = call[c].attempt
  <2>1. op \in Ops \cup {<<>>} /\ "done" \in PCs /\ "LoginError" \in Outs
    BY Words
  <2>2. QED
    BY <2>1, FailingFacts
<1>3. call' = [call EXCEPT ![c] = x]
  BY DEF BadLink, IInv, Types, Failing
<1> HIDE DEF x
<1>4. /\ call' \in [Calls -> CallRecords] /\ CallInv' /\ SlotInv' /\ JarInv'
      /\ \A d \in Calls : call'[d] = IF d = c THEN x ELSE call[d]
  BY <1>1, <1>2, <1>3, Walk
<1>5. Types'
  BY <1>1, <1>4 DEF IInv, Types
<1>6. SoloInv'
  BY <1>1, <1>2, <1>4, SoloEnd
<1>7. QED
  BY <1>4, <1>5, <1>6 DEF IInv

\* The cache lookup of a read, and the purge of an expired entry.
LEMMA LookupStep ==
  ASSUME IInv, NEW c \in Calls, Lookup(c) \/ Purge(c)
  PROVE  IInv'
<1> DEFINE op == call[c].op
<1>1. /\ UNCHANGED <<opened, jar, store, writes, version, now, strayed, org, effect>>
      /\ call[c].pc \in {"lookup", "purge"} /\ UnderWay(c)
  BY DEF Lookup, Purge, UnderWay
<1>2. op \in Ops
  BY <1>1, CallType DEF GoodCall
<1>3. last \in Nat /\ call \in [Calls -> CallRecords]
  BY DEF IInv, Types
<1>4. \/ Issue(c, op)
      \/ call' = [call EXCEPT ![c].pc = "done", ![c].out = "hit"] /\ last' = last
      \/ call' = [call EXCEPT ![c].pc = "purge"] /\ last' = last
  BY DEF Lookup, Purge
<1>5. /\ call' \in [Calls -> CallRecords] /\ CallInv' /\ SlotInv' /\ JarInv' /\ last' \in Nat
      /\ \A d \in Calls : d # c => call'[d] = call[d]
      /\ call'[c].op = op /\ call'[c].pc \in {"load", "wait", "sent", "done", "purge"}
  <2>1. CASE Issue(c, op)
    BY <1>1, <1>2, <2>1, Issued
  <2>2. CASE call' = [call EXCEPT ![c].pc = "done", ![c].out = "hit"] /\ last' = last
    <3> DEFINE x == Ending(call[c], "done", "hit")
    <3>1. /\ x \in CallRecords /\ x.op = call[c].op /\ x.pc = "done" /\ x.out = "hit"
          /\ x.slot = call[c].slot /\ x.attempt = call[c].attempt
      <4>1. "done" \in PCs /\ "hit" \in Outs
        BY Words
      <4>2. QED
        BY <4>1, EndingFacts
    <3>2. call' = [call EXCEPT ![c] = x]
      BY <1>3, <2>2 DEF Ending
    <3> HIDE DEF x
    <3>3. /\ call' \in [Calls -> CallRecords] /\ CallInv' /\ SlotInv' /\ JarInv'
          /\ \A d \in Calls : call'[d] = IF d = c THEN x ELSE call[d]
      BY <1>1, <2>2, <3>1, <3>2, Walk
    <3>4. QED
      BY <1>3, <2>2, <3>1, <3>3
  <2>3. CASE call' = [call EXCEPT ![c].pc = "purge"] /\ last' = last
    <3> DEFINE x == At(call[c], "purge")
    <3>1. /\ x \in CallRecords /\ x.op = call[c].op /\ x.pc = "purge" /\ x.out = call[c].out
          /\ x.slot = call[c].slot /\ x.attempt = call[c].attempt
      <4>1. "purge" \in PCs
        BY Words
      <4>2. QED
        BY <4>1, AtFacts
    <3>2. call' = [call EXCEPT ![c] = x]
      BY <1>3, <2>3 DEF At
    <3> HIDE DEF x
    <3>3. /\ call' \in [Calls -> CallRecords] /\ CallInv' /\ SlotInv' /\ JarInv'
          /\ \A d \in Calls : call'[d] = IF d = c THEN x ELSE call[d]
      BY <1>1, <2>3, <3>1, <3>2, Walk
    <3>4. QED
      BY <1>3, <2>3, <3>1, <3>3
  <2>4. QED
    BY <1>4, <2>1, <2>2, <2>3
<1>6. SoloInv'
  BY <1>1, <1>5, SoloFrame
<1>7. Types'
  BY <1>1, <1>5 DEF IInv, Types
<1>8. QED
  BY <1>5, <1>6, <1>7 DEF IInv

\* open() reads the stored cookies.
LEMMA OpenLoadStep ==
  ASSUME IInv, NEW c \in Calls, OpenLoad(c), UNCHANGED clientVars
  PROVE  IInv'
<1> DEFINE x == [call[c] EXCEPT !.pc = "assign", !.row = store]
<1>1. /\ UNCHANGED <<opened, jar, store, writes, version, last, now, strayed, org, cache, effect, acked>>
      /\ call[c].pc = "load" /\ call' = [call EXCEPT ![c].pc = "assign", ![c].row = store]
  BY DEF OpenLoad, clientVars
<1>2. /\ x \in CallRecords /\ x.op = call[c].op /\ x.pc = "assign" /\ x.out = call[c].out
      /\ x.slot = call[c].slot /\ x.attempt = call[c].attempt /\ x.row = store
  <2>1. "assign" \in PCs /\ store \in Jars /\ call[c] \in CallRecords
    BY Words DEF IInv, Types
  <2>2. QED
    BY <2>1 DEF CallRecords
<1>3. call' = [call EXCEPT ![c] = x]
  BY <1>1 DEF IInv, Types
<1> HIDE DEF x
<1>4. /\ call' \in [Calls -> CallRecords] /\ CallInv' /\ SlotInv' /\ JarInv'
      /\ \A d \in Calls : call'[d] = IF d = c THEN x ELSE call[d]
  BY <1>1, <1>2, <1>3, Walk
<1>5. Types'
  BY <1>1, <1>4 DEF IInv, Types
<1>6. SoloInv'
  <2> SUFFICES ASSUME strayed' = {}, NEW o \in Calls, OpenOnly(o)'
               PROVE  o = c /\ \A d \in Calls : d # c => ~UnderWay(d)'
    BY <1>1, <1>2, <1>4 DEF SoloInv
  <2>1. \A d \in Calls : d # c => (UnderWay(d)' <=> UnderWay(d)) /\ (OpenOnly(d)' <=> OpenOnly(d))
    BY <1>4 DEF UnderWay, OpenOnly
  <2>2. UnderWay(c) /\ (OpenOnly(c)' => OpenOnly(c))
    BY <1>1, <1>2, <1>4 DEF UnderWay, OpenOnly
  <2>3. o = c
    BY <1>1, <2>1, <2>2 DEF IInv, SoloInv
  <2>4. QED
    BY <1>1, <2>1, <2>2, <2>3 DEF IInv, SoloInv
<1>7. QED
  BY <1>4, <1>5, <1>6 DEF IInv

(* A call that has a duty afterwards, whatever became of the jar, or has   *)
(* done it: the queue still belongs to calls that wait for it.             *)
LEMMA Duty ==
  ASSUME IInv, NEW c \in Calls, writes' = writes,
         Owes(c)' \/ Newest' = jar' \/ strayed' # {},
         call[c].pc \notin {"opening", "saving"},
         \A d \in Calls : d # c => call'[d] = call[d]
  PROVE  JarInv'
<1>1. \A i \in 1..Len(writes) : writes[i].by \in Calls
  <2>1. writes \in Seq(Writes)
    BY DEF IInv, Types
  <2>2. \A i \in 1..Len(writes) : writes[i] \in Writes
    BY <2>1
  <2>3. QED
    BY <2>2 DEF Writes
<1>2. \A i \in 1..Len(writes) : writes[i].by # c /\ call'[writes[i].by].pc \in {"opening", "saving"}
  BY <1>1 DEF IInv, JarInv
<1>3. QED
  BY <1>2 DEF IInv, JarInv

\* open() sets the jar.
LEMMA OpenAssignStep ==
  ASSUME IInv, NEW c \in Calls, OpenAssign(c), UNCHANGED clientVars
  PROVE  IInv'
<1>1. /\ UNCHANGED <<store, writes, version, now, strayed, org, cache, effect, acked>>
      /\ call[c].pc = "assign" /\ jar' = Merge(call[c].row, Initial)
  BY DEF OpenAssign, clientVars
<1>2. jar' \in Jars
  BY <1>1, CallType, MergeJars, InitialJar
<1>3. call[c].op \in Ops /\ GoodCall(call[c], effect[c])
  BY <1>1, CallType DEF GoodCall
<1>4. /\ call' \in [Calls -> CallRecords] /\ CallInv' /\ SlotInv' /\ last' \in Nat /\ opened' \in BOOLEAN
      /\ \A d \in Calls : d # c => call'[d] = call[d]
      /\ call'[c].op = call[c].op
      /\ IF Initial = <<>> /\ call[c].op.mode = "open" THEN call'[c].pc = "done" ELSE Owes(c)'
      /\ call'[c].pc \notin {"assign", "opening"} /\ (Initial = <<>> => call'[c].pc # "update")
  <2>1. CASE Initial = <<>>
    <3>1. opened' = TRUE /\ Proceed(c, call[c].op)
      BY <2>1 DEF OpenAssign
    <3>2. QED
      BY <1>1, <1>3, <2>1, <3>1, Proceeded
  <2>2. CASE Initial # <<>>
    <3> DEFINE e == <<>>
               x == [call[c] EXCEPT !.pc = "update", !.row = e]
    <3>1. call' = [call EXCEPT ![c].pc = "update", ![c].row = e] /\ UNCHANGED <<opened, last>>
      BY <2>2 DEF OpenAssign
    <3>2. "update" \in PCs /\ e \in Jars /\ call[c] \in CallRecords
      BY Words, EmptyJar DEF IInv, Types
    <3> HIDE DEF e
    <3>3. /\ x \in CallRecords /\ x.op = call[c].op /\ x.pc = "update" /\ x.out = call[c].out
          /\ x.slot = call[c].slot /\ x.attempt = call[c].attempt
      BY <3>2 DEF CallRecords
    <3>4. call' = [call EXCEPT ![c] = x]
      BY <3>1 DEF IInv, Types
    <3> HIDE DEF x
    <3>5. GoodCall(x, effect'[c])
      BY <1>1, <1>3, <3>3 DEF GoodCall, Before
    <3>6. /\ call' \in [Calls -> CallRecords] /\ CallInv' /\ SlotInv'
          /\ \A d \in Calls : call'[d] = IF d = c THEN x ELSE call[d]
      BY <1>1, <3>1, <3>3, <3>4, <3>5, Moved
    <3>7. last' \in Nat /\ opened' \in BOOLEAN
      BY <3>1 DEF IInv, Types
    <3>8. QED
      BY <2>2, <3>3, <3>6, <3>7 DEF Owes
  <2>3. QED
    BY <2>1, <2>2
<1>41. UnderWay(c) /\ (OpenOnly(c)' => OpenOnly(c))
  BY <1>1, <1>4 DEF UnderWay, OpenOnly
<1>42. OpenOnly(c) /\ strayed = {} => jar' = Merge(store, Initial) /\ writes = <<>> /\ Newest = store
  BY <1>1, <1>41, SoloQueue DEF IInv, SoloInv
<1>5. JarInv'
  <2>1. CASE Owes(c)'
    BY <1>1, <1>4, <2>1, Duty
  <2>2. CASE ~Owes(c)' /\ strayed = {}
    <3>1. Initial = <<>> /\ OpenOnly(c)
      BY <1>4, <1>41, <2>2 DEF OpenOnly
    <3>2. Merge(store, Initial) = store
      BY <3>1, MergeEmpty DEF IInv, Types
    <3>3. Newest' = jar'
      BY <1>1, <1>42, <2>2, <3>1, <3>2 DEF Newest
    <3>4. QED
      BY <1>1, <1>4, <3>3, Duty
  <2>3. CASE strayed # {}
    BY <1>1, <1>4, <2>3, Duty
  <2>4. QED
    BY <2>1, <2>2, <2>3
<1>51. SoloInv'
  <2> SUFFICES ASSUME strayed' = {}, NEW o \in Calls, OpenOnly(o)'
               PROVE  /\ o = c /\ \A d \in Calls : d # c => ~UnderWay(d)'
                      /\ jar' = Merge(store, Initial)
    BY <1>1, <1>4 DEF SoloInv
  <2>1. \A d \in Calls : d # c => (UnderWay(d)' <=> UnderWay(d)) /\ (OpenOnly(d)' <=> OpenOnly(d))
    BY <1>4 DEF UnderWay, OpenOnly
  <2>2. o = c
    BY <1>1, <1>41, <2>1 DEF IInv, SoloInv
  <2>3. QED
    BY <1>1, <1>41, <1>42, <2>1, <2>2 DEF IInv, SoloInv
<1>6. Types'
  BY <1>1, <1>2, <1>4 DEF IInv, Types
<1>7. QED
  BY <1>4, <1>5, <1>51, <1>6 DEF IInv

(* The queue grows by the write of a call that was not in it. *)
LEMMA Queued ==
  ASSUME IInv, NEW c \in Calls, NEW j \in Jars, writes' = Append(writes, [by |-> c, row |-> j]),
         call[c].pc \notin {"opening", "saving"}, call'[c].pc \in {"opening", "saving"},
         \A d \in Calls : d # c => call'[d] = call[d],
         Owes(c)' \/ j = jar'
  PROVE  JarInv' /\ writes' \in Seq(Writes)
<1> DEFINE w == [by |-> c, row |-> j]
<1>1. writes \in Seq(Writes) /\ w \in Writes /\ w.by = c /\ w.row = j
  BY DEF IInv, Types, Writes
<1> HIDE DEF w
<1>2. /\ writes' \in Seq(Writes) /\ Len(writes') = Len(writes) + 1 /\ Len(writes) \in Nat
      /\ \A i \in 1..Len(writes) : writes'[i] = writes[i] /\ writes[i] \in Writes
      /\ writes'[Len(writes')] = w /\ writes' # <<>>
  BY <1>1 DEF w
<1>3. \A i \in 1..Len(writes) : writes[i].by \in Calls /\ writes[i].by # c
  <2>1. \A i \in 1..Len(writes) : writes[i].by \in Calls
    BY <1>2 DEF Writes
  <2>2. QED
    BY <2>1 DEF IInv, JarInv
<1>4. \A i \in 1..Len(writes') : i \in 1..Len(writes) \/ i = Len(writes')
  BY <1>2
<1>5. \A i \in 1..Len(writes') : call'[writes'[i].by].pc \in {"opening", "saving"}
  <2>1. \A i \in 1..Len(writes) : call'[writes'[i].by].pc \in {"opening", "saving"}
    BY <1>2, <1>3 DEF IInv, JarInv
  <2>2. QED
    BY <1>1, <1>2, <1>4, <2>1
<1>6. \A i, k \in 1..Len(writes') : writes'[i].by = writes'[k].by => i = k
  <2>1. \A i, k \in 1..Len(writes) : writes'[i].by = writes'[k].by => i = k
    BY <1>2 DEF IInv, JarInv
  <2>2. QED
    BY <1>1, <1>2, <1>3, <1>4, <2>1
<1>7. Newest' = j
  BY <1>1, <1>2 DEF Newest
<1>8. QED
  BY <1>2, <1>5, <1>6, <1>7 DEF JarInv

\* open() stores the jar.
LEMMA OpenUpdateStep ==
  ASSUME IInv, NEW c \in Calls, OpenUpdate(c), UNCHANGED clientVars
  PROVE  IInv'
<1>1. /\ UNCHANGED <<jar, version, now, strayed, org, cache, effect, acked>>
      /\ call[c].pc = "update"
  BY DEF OpenUpdate, clientVars
<1>2. Merged(store) \in Jars
  BY MergeJars, InitialJar DEF IInv, Types, Merged
<1>3. call[c].op \in Ops /\ GoodCall(call[c], effect[c])
  BY <1>1, CallType DEF GoodCall
<1>31. UnderWay(c) /\ (OpenOnly(c)' => OpenOnly(c) \/ call'[c].op # call[c].op)
  BY <1>1 DEF UnderWay, OpenOnly
<1>32. OpenOnly(c) /\ strayed = {} => jar = Merged(store) /\ writes = <<>>
  BY <1>1, SoloQueue DEF IInv, SoloInv, Merged
<1>4. CASE storage = "lock"
  <2>1. store' = Merged(store) /\ opened' = TRUE /\ Proceed(c, call[c].op) /\ writes' = writes
    BY <1>4 DEF OpenUpdate
  <2>2. /\ call' \in [Calls -> CallRecords] /\ CallInv' /\ SlotInv' /\ last' \in Nat
        /\ \A d \in Calls : d # c => call'[d] = call[d]
        /\ call'[c].op = call[c].op /\ call'[c].pc \in {"wait", "sent", "done"}
        /\ call[c].op.mode # "open" => Owes(c)'
    BY <1>1, <1>3, <2>1, Proceeded
  <2>3. JarInv'
    <3>1. CASE call[c].op.mode # "open" \/ strayed # {}
      BY <1>1, <2>1, <2>2, <3>1, Duty
    <3>2. CASE call[c].op.mode = "open" /\ strayed = {}
      <4>1. Newest' = jar'
        BY <1>1, <1>31, <1>32, <2>1, <3>2 DEF Newest, OpenOnly
      <4>2. QED
        BY <1>1, <2>1, <2>2, <4>1, Duty
    <3>3. QED
      BY <3>1, <3>2
  <2>31. SoloInv'
    BY <1>1, <1>31, <2>2, SoloFrame
  <2>4. Types'
    BY <1>1, <1>2, <2>1, <2>2 DEF IInv, Types
  <2>5. QED
    BY <2>2, <2>3, <2>31, <2>4 DEF IInv
<1>5. CASE storage # "lock"
  <2> DEFINE x == At(call[c], "opening")
             j == Merged(store)
  <2>1. /\ writes' = Append(writes, [by |-> c, row |-> j])
        /\ call' = [call EXCEPT ![c].pc = "opening"] /\ UNCHANGED <<store, opened, last>>
    BY <1>5 DEF OpenUpdate
  <2>2. /\ x \in CallRecords /\ x.op = call[c].op /\ x.pc = "opening" /\ x.out = call[c].out
        /\ x.slot = call[c].slot /\ x.attempt = call[c].attempt
    <3>1. "opening" \in PCs
      BY Words
    <3>2. QED
      BY <3>1, AtFacts
  <2>3. call' = [call EXCEPT ![c] = x]
    BY <2>1 DEF IInv, Types, At
  <2> HIDE DEF x, j
  <2>4. GoodCall(x, effect'[c])
    BY <1>1, <1>3, <2>2 DEF GoodCall, Before
  <2>5. /\ call' \in [Calls -> CallRecords] /\ CallInv' /\ SlotInv'
        /\ \A d \in Calls : call'[d] = IF d = c THEN x ELSE call[d]
    BY <1>1, <2>1, <2>2, <2>3, <2>4, Moved
  <2>6. JarInv' /\ writes' \in Seq(Writes)
    <3>1. Owes(c)' /\ call'[c].pc = "opening" /\ j \in Jars
      BY <1>2, <2>2, <2>5 DEF Owes, j
    <3>2. QED
      BY <1>1, <2>1, <2>5, <3>1, Queued
  <2>61. SoloInv'
    <3> SUFFICES ASSUME strayed' = {}, NEW o \in Calls, OpenOnly(o)'
                 PROVE  /\ o = c /\ \A d \in Calls : d # c => ~UnderWay(d)'
                        /\ \A i \in 1..Len(writes') : writes'[i].row = jar
      BY <1>1, <2>2, <2>5 DEF SoloInv
    <3>1. \A d \in Calls : d # c => (UnderWay(d)' <=> UnderWay(d)) /\ (OpenOnly(d)' <=> OpenOnly(d))
      BY <2>5 DEF UnderWay, OpenOnly
    <3>2. o = c
      BY <1>1, <1>31, <3>1 DEF IInv, SoloInv
    <3>3. OpenOnly(c) /\ call'[c] = x
      BY <1>31, <2>2, <2>5, <3>2
    <3>4. jar = j /\ writes = <<>>
      BY <1>1, <1>32, <3>3 DEF j
    <3>5. writes' = <<[by |-> c, row |-> j]>>
      BY <2>1, <3>4
    <3>6. \A i \in 1..Len(writes') : writes'[i].row = jar
      BY <3>4, <3>5
    <3>7. QED
      BY <1>1, <3>1, <3>2, <3>3, <3>6 DEF IInv, SoloInv
  <2>7. Types'
    BY <1>1, <2>1, <2>5, <2>6 DEF IInv, Types
  <2>8. QED
    BY <2>5, <2>6, <2>61, <2>7 DEF IInv
<1>6. QED
  BY <1>4, <1>5

(* Tick and Close leave the calls alone. *)
LEMMA ClockStep ==
  ASSUME IInv, Tick \/ Close, UNCHANGED clientVars
  PROVE  IInv'
<1>1. /\ UNCHANGED <<jar, store, writes, version, last, strayed, call, org, cache, effect, acked>>
      /\ now' \in Nat /\ opened' \in BOOLEAN /\ (opened' = TRUE => opened = TRUE)
  <2>1. CASE Tick
    BY <2>1 DEF Tick, clientVars, IInv, Types
  <2>2. CASE Close
    BY <2>2 DEF Close, clientVars, IInv, Types
  <2>3. QED
    BY <2>1, <2>2
<1>2. Types'
  BY <1>1 DEF IInv, Types
<1>3. CallInv' /\ SlotInv'
  BY <1>1 DEF IInv, CallInv, GoodCall, SlotInv, SlotsSpaced, Slotted
<1>4. JarInv'
  <2>1. Newest' = Newest /\ \A c \in Calls : (Owes(c)' <=> Owes(c)) /\ (Unsaved(c)' <=> Unsaved(c))
    BY <1>1 DEF Newest, Owes, Unsaved
  <2>2. Fresh => Fresh'
    BY <1>1 DEF Fresh, Saved, IInv, Types
  <2>3. QED
    BY <1>1, <2>1, <2>2 DEF IInv, JarInv
<1>5. SoloInv'
  BY <1>1 DEF IInv, SoloInv, OpenOnly, UnderWay
<1>6. QED
  BY <1>2, <1>3, <1>4, <1>5 DEF IInv

(* Another attempt. *)
LEMMA SendStep ==
  ASSUME IInv, NEW c \in Calls, Send(c) \/ SendAgain(c), UNCHANGED clientVars
  PROVE  IInv'
<1> DEFINE n == call[c].attempt + 1
           x == [call[c] EXCEPT !.pc = "sent", !.attempt = n]
<1>1. /\ UNCHANGED <<opened, jar, store, writes, version, last, now, strayed, org, cache, effect, acked>>
      /\ call[c].pc \in {"wait", "backoff"}
      /\ call' = [call EXCEPT ![c].pc = "sent", ![c].attempt = n]
  BY DEF Send, SendAgain, clientVars
<1>2. GoodCall(call[c], effect[c]) /\ call[c].attempt \in Nat
  BY CallType
<1>3. n \in Nat /\ n <= MaxRetries + 1
  <2>1. call[c].attempt <= MaxRetries
    BY <1>1, <1>2, SessionAssumption DEF GoodCall, Before
  <2>2. QED
    BY <1>2, <2>1, SessionAssumption
<1> HIDE DEF n
<1>4. /\ x \in CallRecords /\ x.op = call[c].op /\ x.pc = "sent" /\ x.out = call[c].out
      /\ x.slot = call[c].slot /\ x.attempt = n
  <2>1. "sent" \in PCs /\ call[c] \in CallRecords
    BY Words DEF IInv, Types
  <2>2. QED
    BY <1>3, <2>1 DEF CallRecords
<1>5. call' = [call EXCEPT ![c] = x]
  BY <1>1 DEF IInv, Types
<1> HIDE DEF x
<1>6. GoodCall(x, effect'[c])
  <2>1. effect'[c] = effect[c] /\ x.op \in Ops /\ x.out # "lost"
    BY <1>1, <1>2, <1>4 DEF GoodCall, Before
  <2>2. CASE call[c].pc = "wait"
    <3>1. effect[c] = 0
      BY <1>2, <2>2 DEF GoodCall, Before
    <3>2. QED
      BY <1>3, <1>4, <2>1, <3>1 DEF GoodCall, Before
  <2>3. CASE call[c].pc = "backoff"
    <3>1. call[c].op.verb \notin {"POST", "PATCH"}
      BY <1>2, <2>3 DEF GoodCall, RetryableVerbs
    <3>2. QED
      BY <1>3, <1>4, <2>1, <3>1 DEF GoodCall, Before
  <2>4. QED
    BY <1>1, <2>2, <2>3
<1>7. /\ call' \in [Calls -> CallRecords] /\ CallInv' /\ SlotInv'
      /\ \A d \in Calls : call'[d] = IF d = c THEN x ELSE call[d]
  BY <1>1, <1>4, <1>5, <1>6, Moved
<1>8. JarInv'
  <2>1. Owes(c)'
    BY <1>4, <1>7 DEF Owes
  <2>2. QED
    BY <1>1, <1>7, <2>1, Duty
<1>9. Types'
  BY <1>1, <1>7 DEF IInv, Types
<1>91. SoloInv'
  <2>1. UnderWay(c) /\ call'[c].op = call[c].op /\ call'[c].pc = "sent"
    BY <1>1, <1>4, <1>7 DEF UnderWay
  <2>2. QED
    BY <1>1, <1>7, <2>1, SoloFrame
<1>10. QED
  BY <1>7, <1>8, <1>9, <1>91 DEF IInv

(* The server applies a request once for each time it is sent. *)
LEMMA Served ==
  ASSUME IInv, NEW c \in Calls, NEW applied \in BOOLEAN, Serve(c, applied), call[c].pc = "sent"
  PROVE  /\ effect' \in [Calls -> Nat] /\ \A d \in Calls \ {c} : effect'[d] = effect[d]
         /\ call[c].op.verb \in {"POST", "PATCH"} => effect'[c] <= 1
<1> DEFINE n == IF applied /\ call[c].op.verb # "GET" THEN effect[c] + 1 ELSE effect[c]
<1>1. effect \in [Calls -> Nat] /\ effect[c] \in Nat
  BY DEF IInv, Types
<1>2. n \in Nat /\ n <= effect[c] + 1
  BY <1>1
<1>3. effect' = [effect EXCEPT ![c] = n]
  BY DEF Serve
<1>4. call[c].op.verb \in {"POST", "PATCH"} => effect[c] = 0
  BY CallType DEF GoodCall
<1> HIDE DEF n
<1>5. effect' \in [Calls -> Nat] /\ effect'[c] = n /\ \A d \in Calls \ {c} : effect'[d] = effect[d]
  BY <1>1, <1>2, <1>3
<1>6. QED
  BY <1>2, <1>4, <1>5

\* The answer is lost on the way.
LEMMA LostStep ==
  ASSUME IInv, NEW c \in Calls, Lost(c)
  PROVE  IInv'
<1>1. PICK applied \in BOOLEAN : Lose(c) /\ Serve(c, applied)
  BY DEF Lost
<1>2. /\ UNCHANGED <<opened, jar, store, writes, version, last, now, strayed, org, cache, acked>>
      /\ call[c].pc = "sent" /\ call' = [call EXCEPT ![c].pc = "done", ![c].out = "lost"]
  BY <1>1 DEF Lost, Lose
<1>3. /\ effect' \in [Calls -> Nat] /\ \A d \in Calls \ {c} : effect'[d] = effect[d]
      /\ call[c].op.verb \in {"POST", "PATCH"} => effect'[c] <= 1
  BY <1>1, <1>2, Served
<1> DEFINE x == Ending(call[c], "done", "lost")
<1>4. /\ x \in CallRecords /\ x.op = call[c].op /\ x.pc = "done" /\ x.out = "lost"
      /\ x.slot = call[c].slot /\ x.attempt = call[c].attempt
  <2>1. "done" \in PCs /\ "lost" \in Outs
    BY Words
  <2>2. QED
    BY <2>1, EndingFacts
<1>5. call' = [call EXCEPT ![c] = x]
  BY <1>2 DEF IInv, Types, Ending
<1> HIDE DEF x
<1>6. GoodCall(x, effect'[c])
  BY <1>2, <1>3, <1>4, CallType DEF GoodCall, Before
<1>7. /\ call' \in [Calls -> CallRecords] /\ CallInv' /\ SlotInv'
      /\ \A d \in Calls : call'[d] = IF d = c THEN x ELSE call[d]
  BY <1>2, <1>3, <1>4, <1>5, <1>6, Moved
<1>8. JarInv'
  <2>1. Unsaved(c)'
    BY <1>4, <1>7 DEF Unsaved
  <2>2. ~Fresh
    BY <1>2 DEF Fresh, Outside
  <2>3. QED
    BY <1>2, <1>7, <2>1, <2>2, JarFrame
<1>9. Types'
  BY <1>2, <1>3, <1>7 DEF IInv, Types
<1>91. SoloInv'
  BY <1>2, <1>4, <1>7, SoloEnd
<1>10. QED
  BY <1>7, <1>8, <1>9, <1>91 DEF IInv

(* An answer: another attempt, the end of a stream's headers, or a save of *)
(* the jar of this moment.                                                 *)
LEMMA AnsweredStep ==
  ASSUME IInv, NEW c \in Calls, Answered(c)
  PROVE  IInv'
<1>1. PICK status \in Statuses, applied \in BOOLEAN, names \in SetCookies :
         Answer(c, status, names) /\ Serve(c, applied)
  BY DEF Answered
<1> DEFINE next == IF Repeats(c, status) THEN "backoff"
                   ELSE IF call[c].op.mode = "stream" THEN "parse" ELSE "saving"
           u == IF next = "backoff" THEN "none" ELSE status
           x == [call[c] EXCEPT !.pc = next, !.status = u]
<1>2. /\ UNCHANGED <<opened, store, last, now, strayed, org, cache, acked>>
      /\ call[c].pc = "sent" /\ Absorb(c, names)
      /\ writes' = IF next = "saving" THEN Append(writes, [by |-> c, row |-> jar']) ELSE writes
      /\ call' = [call EXCEPT ![c].pc = next, ![c].status = u]
  BY <1>1 DEF Answered, Answer
<1>3. /\ effect' \in [Calls -> Nat] /\ \A d \in Calls \ {c} : effect'[d] = effect[d]
      /\ call[c].op.verb \in {"POST", "PATCH"} => effect'[c] <= 1
  BY <1>1, <1>2, Served
<1>4. /\ jar' \in Jars /\ version' \in 0..MaxVersion
      /\ call[c].op.mode = "stream" => jar' = jar
  <2>1. CASE call[c].op.mode = "stream" \/ names = {}
    BY <1>2, <2>1 DEF Absorb, IInv, Types
  <2>2. CASE ~(call[c].op.mode = "stream" \/ names = {})
    <3> DEFINE g == [n \in names |-> version + 1]
    <3>1. version' = version + 1 /\ jar' = Merge(jar, g) /\ version' \in 0..MaxVersion
      BY <1>2, <2>2, SessionAssumption DEF Absorb, IInv, Types
    <3>2. names \in SUBSET CookieNames
      BY DEF SetCookies
    <3>3. g \in [names -> 0..MaxVersion]
      BY <3>1
    <3>4. g \in Jars /\ jar \in Jars
      <4> HIDE DEF g
      <4>1. QED
        BY <3>2, <3>3 DEF Jars, IInv, Types
    <3>5. QED
      BY <2>2, <3>1, <3>4, MergeJars
  <2>3. QED
    BY <2>1, <2>2
<1>5. /\ next \in {"backoff", "parse", "saving"}
      /\ next = "backoff" => call[c].op.verb \in RetryableVerbs /\ call[c].attempt <= MaxRetries
      /\ next = "parse" => call[c].op.mode = "stream"
      /\ u \in Statuses \cup {"none"}
  BY DEF Repeats
<1> HIDE DEF next, u
<1>6. /\ x \in CallRecords /\ x.op = call[c].op /\ x.pc = next /\ x.out = call[c].out
      /\ x.slot = call[c].slot /\ x.attempt = call[c].attempt
  <2>1. next \in PCs /\ call[c] \in CallRecords
    BY <1>5, Words DEF IInv, Types
  <2>2. QED
    BY <1>5, <2>1 DEF CallRecords
<1>7. call' = [call EXCEPT ![c] = x]
  BY <1>2 DEF IInv, Types
<1> HIDE DEF x
<1>8. GoodCall(x, effect'[c])
  <2>1. x.op \in Ops /\ x.out # "lost" /\ x.attempt <= MaxRetries + 1
    BY <1>2, <1>6, CallType DEF GoodCall
  <2>2. QED
    BY <1>3, <1>5, <1>6, <2>1 DEF GoodCall, Before
<1>9. /\ call' \in [Calls -> CallRecords] /\ CallInv' /\ SlotInv'
      /\ \A d \in Calls : call'[d] = IF d = c THEN x ELSE call[d]
  BY <1>2, <1>3, <1>6, <1>7, <1>8, Moved
<1>10. JarInv' /\ writes' \in Seq(Writes)
  <2>1. writes \in Seq(Writes) /\ call'[c] = x
    BY <1>9 DEF IInv, Types
  <2>2. CASE next = "backoff"
    <3>1. Owes(c)' /\ writes' = writes
      BY <1>2, <1>6, <2>1, <2>2 DEF Owes
    <3>2. QED
      BY <1>2, <1>9, <2>1, <3>1, Duty
  <2>3. CASE next = "parse"
    <3>1. Unsaved(c)' /\ UNCHANGED <<writes, jar, store>>
      BY <1>2, <1>4, <1>5, <1>6, <2>1, <2>3 DEF Unsaved
    <3>2. ~Fresh
      BY <1>2 DEF Fresh, Outside
    <3>3. QED
      BY <1>2, <1>9, <2>1, <3>1, <3>2, JarFrame
  <2>4. CASE next = "saving"
    <3> DEFINE j == jar'
    <3>1. writes' = Append(writes, [by |-> c, row |-> j]) /\ call'[c].pc = "saving" /\ j \in Jars
      BY <1>2, <1>4, <1>6, <2>1, <2>4
    <3>2. QED
      BY <1>2, <1>9, <3>1, Queued
  <2>5. QED
    BY <1>5, <2>2, <2>3, <2>4
<1>11. Types'
  BY <1>2, <1>3, <1>4, <1>9, <1>10 DEF IInv, Types
<1>111. SoloInv'
  <2>1. UnderWay(c) /\ call'[c].op = call[c].op /\ call'[c].pc \in {"backoff", "parse", "saving"}
    BY <1>2, <1>5, <1>6, <1>9 DEF UnderWay
  <2>2. QED
    BY <1>2, <1>9, <2>1, SoloFrame
<1>12. QED
  BY <1>9, <1>10, <1>11, <1>111 DEF IInv

(* A call that has been answered: to its end, in the order of its places. *)
LEMMA Wound ==
  ASSUME IInv, NEW c \in Calls, NEW x \in CallRecords, call' = [call EXCEPT ![c] = x],
         x.slot = call[c].slot, x.attempt = call[c].attempt, x.op = call[c].op,
         UNCHANGED <<last, effect, jar, store, writes, opened, strayed>>,
         call[c].pc \in {"parse", "fill", "drop"}, x.pc \in {"fill", "drop", "done"},
         call[c].pc = "parse" \/ x.out = call[c].out
  PROVE  call' \in [Calls -> CallRecords] /\ CallInv' /\ SlotInv' /\ JarInv' /\ SoloInv'
<1>1. GoodCall(call[c], effect[c])
  BY CallType
<1>2. GoodCall(x, effect'[c])
  BY <1>1 DEF GoodCall, Before
<1>3. /\ call' \in [Calls -> CallRecords] /\ CallInv' /\ SlotInv'
      /\ \A d \in Calls : call'[d] = IF d = c THEN x ELSE call[d]
  BY <1>2, Moved
<1>4. JarInv'
  <2>1. ~Owes(c) /\ ~Fresh
    BY DEF Owes, Fresh, Outside
  <2>2. call[c].pc = "parse" => call[c].out # "lost"
    BY <1>1 DEF GoodCall
  <2>3. Unsaved(c) => Unsaved(c)'
    BY <1>3, <2>2 DEF Unsaved
  <2>4. QED
    BY <1>3, <2>1, <2>3, JarFrame
<1>5. SoloInv'
  <2>1. UnderWay(c) /\ call'[c] = x
    BY <1>3 DEF UnderWay
  <2>2. QED
    BY <1>3, <2>1, SoloFrame
<1>6. QED
  BY <1>3, <1>4, <1>5

\* The answer is handed to the facade.
LEMMA FinishStep ==
  ASSUME IInv, NEW c \in Calls, Finish(c)
  PROVE  IInv'
<1> DEFINE op == call[c].op
           Place(out) == IF out = "error" THEN "done"
                         ELSE IF op.fills # None THEN "fill"
                         ELSE IF op.drops # None THEN "drop" ELSE "done"
<1>1. /\ UNCHANGED <<opened, jar, store, writes, version, last, now, strayed, cache, effect, acked>>
      /\ call[c].pc = "parse"
  BY DEF Finish
<1>2. PICK out \in Parsed(c) :
         call' = [call EXCEPT ![c].out = out, ![c].status = "none", ![c].pc = Place(out)]
  BY DEF Finish
<1>3. out \in Outs
  <2>1. op \in Ops
    BY <1>1, CallType DEF GoodCall
  <2>2. out = "error" \/ out = op.reply
    BY DEF Parsed
  <2>3. QED
    BY <2>1, <2>2, Words
<1>4. org' \in BOOLEAN
  BY DEF Finish
<1> DEFINE w == Place(out)
           x == [call[c] EXCEPT !.out = out, !.status = "none", !.pc = w]
<1>5. w \in {"fill", "drop", "done"} /\ w \in PCs
  BY Words
<1> HIDE DEF w
<1>6. /\ x \in CallRecords /\ x.op = call[c].op /\ x.pc = w
      /\ x.slot = call[c].slot /\ x.attempt = call[c].attempt
  <2>1. call[c] \in CallRecords
    BY CallType
  <2>2. QED
    BY <1>3, <1>5, <2>1 DEF CallRecords
<1>7. call' = [call EXCEPT ![c] = x]
  BY <1>2 DEF IInv, Types, w
<1> HIDE DEF x
<1>8. call' \in [Calls -> CallRecords] /\ CallInv' /\ SlotInv' /\ JarInv' /\ SoloInv'
  BY <1>1, <1>5, <1>6, <1>7, Wound
<1>9. Types'
  BY <1>1, <1>4, <1>8 DEF IInv, Types
<1>10. QED
  BY <1>8, <1>9 DEF IInv

(* A call that is done. *)
LEMMA Ended ==
  ASSUME IInv, NEW c \in Calls, call[c].pc \in {"fill", "drop"}, call' = [call EXCEPT ![c].pc = "done"],
         UNCHANGED <<last, effect, jar, store, writes, opened, strayed>>
  PROVE  call' \in [Calls -> CallRecords] /\ CallInv' /\ SlotInv' /\ JarInv' /\ SoloInv'
<1> DEFINE x == At(call[c], "done")
<1>1. /\ x \in CallRecords /\ x.op = call[c].op /\ x.pc = "done" /\ x.out = call[c].out
      /\ x.slot = call[c].slot /\ x.attempt = call[c].attempt
  <2>1. "done" \in PCs
    BY Words
  <2>2. QED
    BY <2>1, AtFacts
<1>2. call' = [call EXCEPT ![c] = x]
  BY DEF IInv, Types, At
<1> HIDE DEF x
<1>3. QED
  BY <1>1, <1>2, Wound

\* A read fills the cache, an update drops its entry.
LEMMA CacheStep ==
  ASSUME IInv, NEW c \in Calls, Fill(c) \/ Drop(c)
  PROVE  IInv'
<1>1. /\ UNCHANGED <<opened, jar, store, writes, version, last, now, strayed, org, effect>>
      /\ call[c].pc \in {"fill", "drop"} /\ call' = [call EXCEPT ![c].pc = "done"]
  BY DEF Fill, Drop
<1>2. call' \in [Calls -> CallRecords] /\ CallInv' /\ SlotInv' /\ JarInv' /\ SoloInv'
  BY <1>1, Ended
<1>3. Types'
  BY <1>1, <1>2 DEF IInv, Types
<1>4. QED
  BY <1>2, <1>3 DEF IInv

(* The queue without one of its writes. *)
LEMMA WithoutFacts ==
  ASSUME NEW S, NEW s \in Seq(S), NEW i \in 1..Len(s)
  PROVE  LET t == Without(s, i)
             At2(j) == IF j < i THEN j ELSE j + 1
         IN /\ t \in Seq(S) /\ Len(t) = Len(s) - 1 /\ Len(s) \in Nat \ {0}
            /\ \A j \in 1..Len(t) : At2(j) \in 1..Len(s) /\ At2(j) # i /\ t[j] = s[At2(j)]
            /\ \A j, k \in 1..Len(t) : At2(j) = At2(k) => j = k
<1> DEFINE n == Len(s) - 1
           At2(j) == IF j < i THEN j ELSE j + 1
           t == Without(s, i)
<1>1. Len(s) \in Nat \ {0} /\ n \in Nat /\ i \in Nat
  OBVIOUS
<1>2. \A j \in 1..n : At2(j) \in 1..Len(s) /\ At2(j) # i
  BY <1>1
<1>3. t = [j \in 1..n |-> s[At2(j)]]
  BY DEF Without
<1>4. t \in [1..n -> S]
  BY <1>2, <1>3
<1>5. t \in Seq(S) /\ Len(t) = n
  BY <1>1, <1>3, <1>4
<1>6. \A j \in 1..n : t[j] = s[At2(j)]
  BY <1>3
<1>7. \A j, k \in 1..n : At2(j) = At2(k) => j = k
  BY <1>1
<1>8. QED
  BY <1>1, <1>2, <1>5, <1>6, <1>7

(* The storage carries out a write.  When it is the oldest one, what it    *)
(* will hold in the end stays the same.                                    *)
LEMMA LandStep ==
  ASSUME IInv, Land, UNCHANGED clientVars
  PROVE  IInv'
<1>0. PICK n \in 1..Len(writes) :
         /\ strayed' = IF n = 1 THEN strayed ELSE strayed \cup {"order"}
         /\ store' = writes[n].row /\ writes' = Without(writes, n)
         /\ IF call[writes[n].by].pc = "opening"
            THEN opened' = TRUE /\ Proceed(writes[n].by, call[writes[n].by].op)
            ELSE call' = [call EXCEPT ![writes[n].by].pc = "parse"] /\ UNCHANGED <<opened, last>>
  BY DEF Land
<1> DEFINE w == writes[n]
           At2(j) == IF j < n THEN j ELSE j + 1
<1>01. UNCHANGED <<jar, version, now, org, effect>>
  BY DEF Land, clientVars
<1>2. /\ writes \in Seq(Writes) /\ w \in Writes
      /\ writes' \in Seq(Writes) /\ Len(writes') = Len(writes) - 1 /\ Len(writes) \in Nat \ {0}
      /\ \A i \in 1..Len(writes') : At2(i) \in 1..Len(writes) /\ At2(i) # n /\ writes'[i] = writes[At2(i)]
      /\ \A i, j \in 1..Len(writes') : At2(i) = At2(j) => i = j
  <2>1. writes \in Seq(Writes)
    BY DEF IInv, Types
  <2>2. w \in Writes
    BY <2>1
  <2>3. writes' = Without(writes, n)
    BY <1>0
  <2>4. /\ writes' \in Seq(Writes) /\ Len(writes') = Len(writes) - 1 /\ Len(writes) \in Nat \ {0}
        /\ \A i \in 1..Len(writes') : At2(i) \in 1..Len(writes) /\ At2(i) # n /\ writes'[i] = writes[At2(i)]
        /\ \A i, j \in 1..Len(writes') : At2(i) = At2(j) => i = j
    BY <2>1, <2>3, WithoutFacts
  <2>5. QED
    BY <2>1, <2>2, <2>4
<1>20. w.by \in Calls /\ w.row \in Jars /\ call[w.by].pc \in {"opening", "saving"}
  <2>1. w.by \in Calls /\ w.row \in Jars
    BY <1>2 DEF Writes
  <2>2. QED
    BY <2>1 DEF IInv, JarInv
<1>21. PICK c \in Calls : c = w.by
  BY <1>20
<1>1. /\ store' = w.row
      /\ IF call[c].pc = "opening" THEN opened' = TRUE /\ Proceed(c, call[c].op)
         ELSE call' = [call EXCEPT ![c].pc = "parse"] /\ UNCHANGED <<opened, last>>
  BY <1>0, <1>21
<1>22. /\ strayed' = {} => n = 1 /\ strayed = {}
  BY <1>0
<1>3. w.row \in Jars /\ call[c].pc \in {"opening", "saving"} /\ UnderWay(c)
  BY <1>20, <1>21 DEF UnderWay
<1>4. call[c].op \in Ops /\ GoodCall(call[c], effect[c])
  BY <1>3, CallType DEF GoodCall
<1>5. /\ call' \in [Calls -> CallRecords] /\ CallInv' /\ SlotInv' /\ last' \in Nat /\ opened' \in BOOLEAN
      /\ \A d \in Calls : d # c => call'[d] = call[d]
      /\ call'[c].op = call[c].op /\ call'[c].pc \in {"wait", "sent", "done", "parse"}
      /\ Owes(c) => Owes(c)' \/ (call[c].op.mode = "open" /\ call[c].pc = "opening")
      /\ Unsaved(c) => Unsaved(c)'
  <2>1. CASE call[c].pc = "opening"
    <3>1. opened' = TRUE /\ Proceed(c, call[c].op)
      BY <1>1, <2>1
    <3>2. QED
      BY <1>01, <1>3, <1>4, <2>1, <3>1, Proceeded
  <2>2. CASE call[c].pc = "saving"
    <3> DEFINE x == At(call[c], "parse")
    <3>1. call' = [call EXCEPT ![c].pc = "parse"] /\ UNCHANGED <<opened, last>>
      BY <1>1, <2>2
    <3>2. /\ x \in CallRecords /\ x.op = call[c].op /\ x.pc = "parse" /\ x.out = call[c].out
          /\ x.slot = call[c].slot /\ x.attempt = call[c].attempt
      <4>1. "parse" \in PCs
        BY Words
      <4>2. QED
        BY <1>3, <4>1, AtFacts
    <3>3. call' = [call EXCEPT ![c] = x]
      BY <3>1 DEF IInv, Types, At
    <3> HIDE DEF x
    <3>4. GoodCall(x, effect'[c])
      BY <1>01, <1>4, <2>2, <3>2 DEF GoodCall, Before
    <3>5. /\ call' \in [Calls -> CallRecords] /\ CallInv' /\ SlotInv'
          /\ \A d \in Calls : call'[d] = IF d = c THEN x ELSE call[d]
      BY <1>01, <3>1, <3>2, <3>3, <3>4, Moved
    <3>6. ~Owes(c) /\ (Unsaved(c) => Unsaved(c)')
      BY <1>3, <2>2, <3>2, <3>5 DEF Owes, Unsaved
    <3>7. last' \in Nat /\ opened' \in BOOLEAN
      BY <3>1 DEF IInv, Types
    <3>8. QED
      BY <3>2, <3>5, <3>6, <3>7
  <2>3. QED
    BY <1>3, <2>1, <2>2
<1>6. JarInv'
  <2>2. \A i \in 1..Len(writes') : writes'[i].by \in Calls /\ writes'[i].by # c
    <3>2. \A i \in 1..Len(writes) : writes[i] \in Writes
      BY <1>2
    <3>3. \A i \in 1..Len(writes) : writes[i].by \in Calls
      BY <3>2 DEF Writes
    <3>4. \A i \in 1..Len(writes) : i # n => writes[i].by # c
      BY <1>21 DEF IInv, JarInv
    <3> HIDE DEF At2
    <3>5. QED
      BY <1>2, <3>3, <3>4
  <2>3. \A i \in 1..Len(writes') : call'[writes'[i].by].pc \in {"opening", "saving"}
    <3> HIDE DEF At2
    <3>1. \A i \in 1..Len(writes) : call[writes[i].by].pc \in {"opening", "saving"}
      BY DEF IInv, JarInv
    <3>2. \A i \in 1..Len(writes') : call[writes'[i].by].pc \in {"opening", "saving"}
      BY <1>2, <3>1
    <3>3. QED
      BY <1>5, <2>2, <3>2
  <2>4. \A i, j \in 1..Len(writes') : writes'[i].by = writes'[j].by => i = j
    <3> SUFFICES ASSUME NEW i \in 1..Len(writes'), NEW j \in 1..Len(writes'),
                        writes'[i].by = writes'[j].by
                 PROVE  i = j
      OBVIOUS
    <3> HIDE DEF At2
    <3>1. At2(i) \in 1..Len(writes) /\ At2(j) \in 1..Len(writes)
      BY <1>2
    <3>2. writes[At2(i)].by = writes[At2(j)].by
      BY <1>2
    <3>3. \A k, l \in 1..Len(writes) : writes[k].by = writes[l].by => k = l
      BY DEF IInv, JarInv
    <3>4. At2(i) = At2(j)
      BY <3>1, <3>2, <3>3
    <3>5. QED
      BY <1>2, <3>4
  <2>5. n = 1 => Newest' = Newest
    <3> SUFFICES ASSUME n = 1 PROVE Newest' = Newest
      OBVIOUS
    <3>1. CASE Len(writes) = 1
      <4>1. writes' = <<>>
        BY <1>2, <3>1
      <4>2. QED
        BY <1>1, <1>2, <3>1, <4>1 DEF Newest
    <3>2. CASE Len(writes) # 1
      <4>1. Len(writes') \in 1..Len(writes') /\ Len(writes') + 1 = Len(writes) /\ writes' # <<>>
        BY <1>2, <3>2
      <4>2. writes'[Len(writes')] = writes[Len(writes)]
        BY <1>2, <4>1
      <4>3. writes # <<>>
        BY <1>2
      <4>4. QED
        BY <4>1, <4>2, <4>3 DEF Newest
    <3>3. QED
      BY <3>1, <3>2
  <2>51. strayed' = {} /\ call[c].op.mode = "open" /\ call[c].pc = "opening" => Newest' = jar'
    <3> SUFFICES ASSUME strayed = {}, n = 1, OpenOnly(c), call[c].pc = "opening" PROVE Newest' = jar'
      BY <1>22, <1>3 DEF OpenOnly
    <3>1. Newest = jar
      <4>1. writes # <<>> /\ Len(writes) \in 1..Len(writes)
        BY <1>2
      <4>2. writes[Len(writes)].row = jar
        BY <4>1 DEF IInv, SoloInv
      <4>3. QED
        BY <4>1, <4>2 DEF Newest
    <3>2. QED
      BY <1>01, <2>5, <3>1
  <2>6. ~Fresh
    BY <1>3 DEF Fresh, Outside
  <2>7. (\E d \in Calls : Owes(d)) /\ ~(call[c].op.mode = "open" /\ call[c].pc = "opening")
           => \E d \in Calls : Owes(d)'
    <3>1. \A d \in Calls : d # c => (Owes(d) => Owes(d)')
      BY <1>5 DEF Owes
    <3>2. QED
      BY <1>5, <3>1
  <2>8. (\E d \in Calls : Unsaved(d)) => \E d \in Calls : Unsaved(d)'
    <3>1. \A d \in Calls : d # c => (Unsaved(d) => Unsaved(d)')
      BY <1>5 DEF Unsaved
    <3>2. QED
      BY <1>5, <3>1
  <2>9. Newest = jar \/ (\E d \in Calls : Owes(d)) \/ (\E d \in Calls : Unsaved(d)) \/ strayed # {}
    BY <2>6 DEF IInv, JarInv
  <2>10. \/ Newest' = jar' \/ (\E d \in Calls : Owes(d)') \/ (\E d \in Calls : Unsaved(d)')
         \/ strayed' # {}
    BY <1>01, <1>22, <2>5, <2>51, <2>7, <2>8, <2>9
  <2>11. QED
    BY <2>3, <2>4, <2>10 DEF JarInv
<1>61. SoloInv'
  BY <1>22, <1>3, <1>5, SoloFrame
<1>7. Types'
  BY <1>01, <1>1, <1>2, <1>3, <1>5 DEF IInv, Types
<1>8. QED
  BY <1>5, <1>6, <1>61, <1>7 DEF IInv

---------------------------------------------------------------------------
\* Every step keeps the invariant.
LEMMA StepIInv == IInv /\ [Next]_vars => IInv'
<1> SUFFICES ASSUME IInv, [Next]_vars PROVE IInv'
  OBVIOUS
<1>1. ASSUME NEW c \in Calls, Local(c) PROVE IInv'
  BY <1>1, OpenLoadStep, OpenAssignStep, OpenUpdateStep, SendStep DEF Local
<1>2. ASSUME NEW c \in Calls, Step(c) PROVE IInv'
  BY <1>1, <1>2, LookupStep, AnsweredStep, LostStep, FinishStep, CacheStep DEF Step
<1>3. ASSUME NEW c \in Calls, NEW op \in Ops, Begin(c, op) \/ BadLink(c, op) PROVE IInv'
  BY <1>3, BeginStep, BadLinkStep
<1>4. CASE (Land \/ Tick \/ Close) /\ UNCHANGED clientVars
  BY <1>4, LandStep, ClockStep
<1>5. CASE UNCHANGED vars
  <2>1. UNCHANGED <<opened, jar, store, writes, version, last, now, strayed, call, org, cache, effect, acked>>
    BY <1>5 DEF vars, sessionVars, clientVars
  <2>2. Types' /\ CallInv' /\ SlotInv'
    BY <2>1 DEF IInv, Types, CallInv, GoodCall, SlotInv, SlotsSpaced, Slotted
  <2>3. JarInv' /\ SoloInv'
    BY <2>1 DEF IInv, JarInv, Newest, Owes, Unsaved, Fresh, Saved, SoloInv, OpenOnly, UnderWay
  <2>4. QED
    BY <2>2, <2>3 DEF IInv
<1>6. QED
  BY <1>2, <1>3, <1>4, <1>5 DEF Next

\* The invariant holds in every reachable state.
LEMMA InvariantIInv == Spec => []IInv
BY InitIInv, StepIInv, PTL DEF Spec

(* Type correctness: the jar, the row and every queued write stay jars,    *)
(* and RetryMiddleware makes no more attempts than it is allowed.          *)
THEOREM TypeCorrect == Spec => []TypeOK
<1>1. IInv => TypeOK
  <2> SUFFICES ASSUME IInv PROVE TypeOK
    OBVIOUS
  <2>1. \A c \in Calls : call[c].attempt <= MaxRetries + 1
    BY CallType DEF GoodCall
  <2>2. QED
    BY <2>1 DEF IInv, Types, TypeOK
<1>2. QED
  BY <1>1, InvariantIInv, PTL

(* RateLimitMiddleware: the slots of any two calls are min_interval apart. *)
THEOREM SlotsSpacedHolds == Spec => []SlotsSpaced
<1>1. IInv => SlotsSpaced
  BY DEF IInv, SlotInv
<1>2. QED
  BY <1>1, InvariantIInv, PTL

(* RetryMiddleware: a POST or PATCH takes effect on the server at most     *)
(* once, however its answers are lost, delayed or refused.                 *)
THEOREM EffectOnceHolds == Spec => []EffectOnce
<1>1. IInv => EffectOnce
  BY CallType DEF GoodCall, EffectOnce
<1>2. QED
  BY <1>1, InvariantIInv, PTL

(* HttpSession: when every call is over and none was cut off, the storage  *)
(* holds the jar in memory, though requests overlapped while they opened   *)
(* the session, absorbed cookies and saved them; unless open() on its own  *)
(* ran beside another call, or MongoDB changed the order of two writes.    *)
THEOREM CookiesAgreeHolds == Spec => []CookiesAgree
<1>1. IInv => CookiesAgree
  <2> SUFFICES ASSUME IInv, Idle, NEW s \in Calls, Saved(s), ~(\E c \in Calls : Unsaved(c)),
                      strayed = {}
               PROVE  store = jar
    BY DEF CookiesAgree
  <2>1. writes = <<>>
    <3> SUFFICES ASSUME writes # <<>> PROVE FALSE
      OBVIOUS
    <3>1. writes \in Seq(Writes) /\ 1 \in 1..Len(writes) /\ writes[1] \in Writes
      BY DEF IInv, Types
    <3>2. writes[1].by \in Calls
      BY <3>1 DEF Writes
    <3>3. call[writes[1].by].pc \in {"opening", "saving"}
      BY <3>1 DEF IInv, JarInv
    <3>4. QED
      BY <3>2, <3>3 DEF Idle
  <2>2. ~Fresh /\ ~(\E c \in Calls : Owes(c))
    BY DEF Fresh, Owes, Idle
  <2>3. Newest = jar
    BY <2>2 DEF IInv, JarInv
  <2>4. QED
    BY <2>1, <2>3 DEF Newest
<1>2. QED
  BY <1>1, InvariantIInv, PTL

---------------------------------------------------------------------------
(* The cache.  A call that has been answered carries a version that is as  *)
(* new as every update which dropped its key, unless one dropped it while  *)
(* the call was under way; and no update returns for a version the server  *)
(* does not have.                                                          *)

Answers == {"saving", "parse", "fill", "drop"}

CacheInv ==
    /\ server \in [Keys -> Nat] /\ acked \in [Keys -> Nat] /\ val \in [Calls -> Nat]
    /\ raced \subseteq Calls
    /\ cache \in [Keys -> {None} \cup [val : Nat, expires : Nat, by : Calls]]
    /\ \A k \in Keys : acked[k] <= server[k]
    /\ \A c \in Calls : call[c].pc \in Answers /\ call[c].op.fills # None =>
          val[c] >= acked[call[c].op.fills] \/ c \in raced
    /\ \A c \in Calls : call[c].pc \in Answers /\ call[c].op.drops # None =>
          val[c] <= server[call[c].op.drops]
    /\ NoStaleSurvivor

\* What a call's operation says of its keys.
LEMMA OpKeys ==
  ASSUME IInv, NEW c \in Calls, call[c].pc # "idle"
  PROVE  /\ call[c].op.fills # None => call[c].op.fills \in Keys /\ call[c].op.res = call[c].op.fills
         /\ call[c].op.drops # None => call[c].op.drops \in Keys /\ call[c].op.res = call[c].op.drops
         /\ call[c].op.res # None => call[c].op.res \in Keys
<1>1. call[c].op \in Ops /\ Ops \subseteq ClientOps
  BY CallType, ClientAssumption DEF GoodCall
<1>2. call[c].op \in ClientOps
  BY <1>1
<1>3. QED
  BY <1>2, ClientAssumption

(* The server, the answers and the history are left alone; the cache may   *)
(* lose entries; whoever stands among the answered calls stood there.      *)
LEMMA CacheFrame ==
  ASSUME CacheInv, UNCHANGED <<server, acked, val, raced>>,
         cache' = cache \/ \E k : cache' = [cache EXCEPT ![k] = None],
         \A c \in Calls : call'[c].pc \in Answers => call[c].pc \in Answers /\ call'[c].op = call[c].op
  PROVE  CacheInv'
<1>1. /\ cache' \in [Keys -> {None} \cup [val : Nat, expires : Nat, by : Calls]]
      /\ \A j \in Keys : cache'[j] = cache[j] \/ cache'[j] = None
  <2>1. CASE cache' = cache
    BY <2>1 DEF CacheInv
  <2>2. CASE \E k : cache' = [cache EXCEPT ![k] = None]
    BY <2>2 DEF CacheInv
  <2>3. QED
    BY <2>1, <2>2
<1>2. NoStaleSurvivor'
  BY <1>1 DEF CacheInv, NoStaleSurvivor
<1>3. QED
  BY <1>1, <1>2 DEF CacheInv

\* A call that is sent or lost: nothing is cached and nothing acknowledged.
LEMMA CacheServed ==
  ASSUME IInv, CacheInv, NEW c \in Calls, NEW applied \in BOOLEAN, Serve(c, applied),
         call[c].pc = "sent", UNCHANGED <<cache, acked, raced>>,
         \A d \in Calls : d # c => call'[d] = call[d], call'[c].op = call[c].op
  PROVE  CacheInv'
<1> DEFINE op == call[c].op
           k == op.res
           hit == op.res # None /\ op.verb # "GET" /\ applied
           s == IF hit THEN [server EXCEPT ![op.res] = server[op.res] + 1] ELSE server
<1>1. server' = s /\ val' = IF op.res = None THEN val ELSE [val EXCEPT ![c] = s[op.res]]
  BY DEF Serve
<1>2. k # None => k \in Keys
  BY OpKeys
<1>3. server \in [Keys -> Nat] /\ val \in [Calls -> Nat]
  BY DEF CacheInv
<1>4. server' \in [Keys -> Nat] /\ \A j \in Keys : server'[j] >= server[j]
  BY <1>1, <1>2, <1>3
<1> HIDE DEF s
<1>5. /\ val' \in [Calls -> Nat] /\ \A d \in Calls : d # c => val'[d] = val[d]
      /\ k # None => val'[c] = server'[k]
  BY <1>1, <1>2, <1>3, <1>4
<1> HIDE DEF k, op
<1>6. acked \in [Keys -> Nat] /\ \A j \in Keys : acked[j] <= server'[j]
  BY <1>3, <1>4 DEF CacheInv
<1>7. op.fills # None => op.fills \in Keys /\ k = op.fills
  BY OpKeys DEF op, k
<1>8. op.drops # None => op.drops \in Keys /\ k = op.drops
  BY OpKeys DEF op, k
<1>9. ASSUME NEW d \in Calls, call'[d].pc \in Answers, call'[d].op.fills # None
      PROVE  val'[d] >= acked'[call'[d].op.fills] \/ d \in raced'
  <2>1. CASE d = c
    <3>1. val'[c] = server'[op.fills] /\ call'[c].op = op /\ op.fills \in Keys
      BY <1>5, <1>7, <1>9, <2>1 DEF op
    <3>2. acked[op.fills] \in Nat /\ server'[op.fills] \in Nat /\ acked[op.fills] <= server'[op.fills]
      BY <1>4, <1>6, <3>1
    <3>3. QED
      BY <2>1, <3>1, <3>2
  <2>2. CASE d # c
    BY <1>5, <1>9, <2>2 DEF CacheInv
  <2>3. QED
    BY <2>1, <2>2
<1>10. ASSUME NEW d \in Calls, call'[d].pc \in Answers, call'[d].op.drops # None
       PROVE  val'[d] <= server'[call'[d].op.drops]
  <2>1. CASE d = c
    <3>1. val'[c] = server'[op.drops] /\ call'[c].op = op /\ op.drops \in Keys
      BY <1>5, <1>8, <1>10, <2>1 DEF op
    <3>2. QED
      BY <1>4, <2>1, <3>1
  <2>2. CASE d # c
    <3>1. call'[d] = call[d] /\ val'[d] = val[d] /\ val[d] \in Nat
      BY <1>3, <1>5, <2>2
    <3>2. call[d].op.drops \in Keys
      BY <1>10, <3>1, OpKeys DEF Answers
    <3>3. val[d] <= server[call[d].op.drops]
      BY <1>10, <3>1 DEF CacheInv
    <3>4. QED
      BY <1>3, <1>4, <3>1, <3>2, <3>3
  <2>3. QED
    BY <2>1, <2>2
<1>11. NoStaleSurvivor'
  BY DEF CacheInv, NoStaleSurvivor
<1>12. QED
  BY <1>4, <1>5, <1>6, <1>9, <1>10, <1>11 DEF CacheInv

\* A read fills the cache with the version it was answered.
LEMMA CacheFilled ==
  ASSUME IInv, CacheInv, NEW c \in Calls, Fill(c)
  PROVE  CacheInv'
<1> DEFINE k == call[c].op.fills
           v == [val |-> val[c], expires |-> now + TTL, by |-> c]
<1>1. /\ UNCHANGED <<server, acked, val, raced>> /\ call[c].pc = "fill"
      /\ call' = [call EXCEPT ![c].pc = "done"] /\ cache' = [cache EXCEPT ![k] = v]
  BY DEF Fill, Set
<1>2. v \in [val : Nat, expires : Nat, by : Calls] /\ v.val = val[c] /\ v.by = c
  BY ClientAssumption DEF CacheInv, IInv, Types
<1> HIDE DEF v
<1>3. /\ cache' \in [Keys -> {None} \cup [val : Nat, expires : Nat, by : Calls]]
      /\ \A j \in Keys : cache'[j] = IF j = k THEN v ELSE cache[j]
  BY <1>1, <1>2 DEF CacheInv
<1>4. \A d \in Calls : call'[d].pc \in Answers => call'[d] = call[d]
  BY <1>1 DEF IInv, Types, Answers
<1>5. NoStaleSurvivor'
  <2> SUFFICES ASSUME NEW j \in Keys, cache'[j] # None, cache'[j].val < acked[j]
               PROVE  cache'[j].by \in raced
    BY <1>1 DEF NoStaleSurvivor
  <2>1. CASE j = k
    <3>1. cache'[j] = v /\ val[c] < acked[k]
      BY <1>2, <1>3, <2>1
    <3>2. k # None
      BY <2>1, ClientAssumption
    <3>3. val[c] >= acked[k] \/ c \in raced
      BY <1>1, <3>2 DEF CacheInv, Answers
    <3>4. val[c] \in Nat /\ acked[k] \in Nat
      BY <2>1 DEF CacheInv
    <3>5. QED
      BY <1>2, <3>1, <3>3, <3>4
  <2>2. CASE j # k
    BY <1>3, <2>2 DEF CacheInv, NoStaleSurvivor
  <2>3. QED
    BY <2>1, <2>2
<1>6. QED
  BY <1>1, <1>3, <1>4, <1>5 DEF CacheInv

\* An update drops its entry: the reads under way are overtaken.
LEMMA CacheDropped ==
  ASSUME IInv, CacheInv, NEW c \in Calls, Drop(c)
  PROVE  CacheInv'
<1> DEFINE k == call[c].op.drops
           a == Later(acked[k], val[c])
<1>1. /\ UNCHANGED <<server, val>> /\ call[c].pc = "drop"
      /\ call' = [call EXCEPT ![c].pc = "done"] /\ cache' = [cache EXCEPT ![k] = None]
      /\ acked' = [acked EXCEPT ![k] = a]
      /\ raced' = raced \cup Readers(k)
  BY DEF Drop, Set
<1>2. /\ cache' \in [Keys -> {None} \cup [val : Nat, expires : Nat, by : Calls]]
      /\ \A j \in Keys : IF j = k THEN cache'[j] = None ELSE cache'[j] = cache[j]
  BY <1>1 DEF CacheInv
<1>3. k \in Keys => a \in Nat /\ a <= server[k]
  <2> SUFFICES ASSUME k \in Keys PROVE a \in Nat /\ a <= server[k]
    OBVIOUS
  <2>1. k # None /\ acked[k] \in Nat /\ val[c] \in Nat /\ server[k] \in Nat
    BY ClientAssumption DEF CacheInv
  <2>2. acked[k] <= server[k] /\ val[c] <= server[k]
    BY <1>1, <2>1 DEF CacheInv, Answers
  <2>3. QED
    BY <2>1, <2>2 DEF Later
<1> HIDE DEF a
<1>4. /\ acked' \in [Keys -> Nat] /\ \A j \in Keys : acked'[j] <= server[j]
      /\ \A j \in Keys : j # k => acked'[j] = acked[j]
  BY <1>1, <1>3 DEF CacheInv
<1>5. raced' \subseteq Calls
  BY <1>1 DEF CacheInv, Readers
<1>51. \A d \in Calls : d \in raced => d \in raced'
  BY <1>1
<1>52. \A d \in Calls : UnderWay(d) /\ call[d].op.fills = k => d \in raced'
  BY <1>1 DEF Readers
<1>6. \A d \in Calls : call'[d].pc \in Answers => call'[d] = call[d]
  BY <1>1 DEF IInv, Types, Answers
<1>7. ASSUME NEW d \in Calls, call'[d].pc \in Answers, call'[d].op.fills # None
      PROVE  val'[d] >= acked'[call'[d].op.fills] \/ d \in raced'
  <2>1. call'[d] = call[d] /\ UnderWay(d)
    BY <1>6, <1>7 DEF Answers, UnderWay
  <2>2. CASE call[d].op.fills = k
    BY <1>52, <2>1, <2>2
  <2>3. CASE call[d].op.fills # k
    <3>1. call[d].op.fills \in Keys
      BY <1>7, <2>1, OpKeys DEF UnderWay
    <3>2. acked'[call[d].op.fills] = acked[call[d].op.fills]
      BY <1>4, <2>3, <3>1
    <3>3. val[d] >= acked[call[d].op.fills] \/ d \in raced
      BY <1>7, <2>1 DEF CacheInv
    <3>4. QED
      BY <1>1, <1>51, <2>1, <3>2, <3>3
  <2>4. QED
    BY <2>2, <2>3
<1>8. \A d \in Calls : call'[d].pc \in Answers /\ call'[d].op.drops # None
         => val'[d] <= server'[call'[d].op.drops]
  BY <1>1, <1>6 DEF CacheInv
<1>9. NoStaleSurvivor'
  <2> SUFFICES ASSUME NEW j \in Keys, cache'[j] # None, cache'[j].val < acked'[j]
               PROVE  cache'[j].by \in raced'
    BY DEF NoStaleSurvivor
  <2>1. j # k /\ cache'[j] = cache[j] /\ acked'[j] = acked[j]
    BY <1>2, <1>4
  <2>2. cache[j].by \in raced /\ cache[j].by \in Calls
    BY <2>1 DEF CacheInv, NoStaleSurvivor
  <2>3. QED
    BY <1>51, <2>1, <2>2
<1>10. QED
  BY <1>1, <1>2, <1>4, <1>5, <1>7, <1>8, <1>9 DEF CacheInv

\* No other step puts a call among the answered ones.
LEMMA CacheKept ==
  ASSUME IInv, CacheInv, NEW c \in Calls,
         \/ Local(c) \/ Lookup(c) \/ Purge(c) \/ Finish(c)
         \/ \E op \in Ops : Begin(c, op) \/ BadLink(c, op)
  PROVE  CacheInv'
<1>1. UNCHANGED <<server, acked, val, raced>>
  BY DEF Local, OpenLoad, OpenAssign, OpenUpdate, Send, SendAgain, Lookup, Purge, Finish, Begin, BadLink,
         clientVars
<1>2. cache' = cache \/ \E k : cache' = [cache EXCEPT ![k] = None]
  BY DEF Local, OpenLoad, OpenAssign, OpenUpdate, Send, SendAgain, Lookup, Purge, Finish, Begin, BadLink,
         clientVars, Set
<1>3. call \in [Calls -> CallRecords]
  BY DEF IInv, Types
<1>4. \A d \in Calls : call'[d].pc \in Answers => call[d].pc \in Answers /\ call'[d].op = call[d].op
  <2>1. CASE Finish(c)
    <3>1. PICK p, u : call' = [call EXCEPT ![c].out = u, ![c].status = "none", ![c].pc = p]
      BY <2>1 DEF Finish
    <3>2. call'[c].op = call[c].op /\ \A d \in Calls : d # c => call'[d] = call[d]
      BY <1>3, <3>1 DEF CallRecords
    <3>3. call[c].pc \in Answers
      BY <2>1 DEF Finish, Answers
    <3>4. QED
      BY <3>2, <3>3
  <2>10. ASSUME NEW op, Proceed(c, op)
         PROVE  call'[c].pc \notin Answers /\ \A d \in Calls : d # c => call'[d] = call[d]
    <3>1. CASE op.mode # "open"
      BY <1>3, <2>10, <3>1 DEF Proceed, Launch, Answers, CallRecords
    <3>2. CASE op.mode = "open"
      BY <1>3, <2>10, <3>2 DEF Proceed, Answers, CallRecords
    <3>3. QED
      BY <3>1, <3>2
  <2>11. ASSUME NEW op, Issue(c, op)
         PROVE  call'[c].pc \notin Answers /\ \A d \in Calls : d # c => call'[d] = call[d]
    <3>1. CASE op.org /\ ~org
      BY <1>3, <2>11, <3>1 DEF Issue, Answers, CallRecords
    <3>2. CASE ~(op.org /\ ~org) /\ opened
      <4>1. Proceed(c, op)
        BY <2>11, <3>2 DEF Issue, Enter
      <4>2. QED
        BY <2>10, <4>1
    <3>3. CASE ~(op.org /\ ~org) /\ ~opened
      BY <1>3, <2>11, <3>3 DEF Issue, Enter, Answers, CallRecords
    <3>4. QED
      BY <3>1, <3>2, <3>3
  <2>2. CASE OpenLoad(c) \/ Send(c) \/ SendAgain(c)
    <3>1. CASE OpenLoad(c)
      BY <1>3, <3>1 DEF OpenLoad, Answers, CallRecords
    <3>2. CASE Send(c) \/ SendAgain(c)
      <4>1. call' = [call EXCEPT ![c].pc = "sent", ![c].attempt = @ + 1]
        BY <3>2 DEF Send, SendAgain
      <4>2. call'[c].pc = "sent" /\ \A d \in Calls : d # c => call'[d] = call[d]
        BY <1>3, <4>1 DEF CallRecords
      <4>3. QED
        BY <4>2 DEF Answers
    <3>3. QED
      BY <2>2, <3>1, <3>2
  <2>3. CASE OpenAssign(c) \/ OpenUpdate(c)
    <3>1. \/ Proceed(c, call[c].op)
          \/ call' = [call EXCEPT ![c].pc = "update", ![c].row = <<>>]
          \/ call' = [call EXCEPT ![c].pc = "opening"]
      BY <2>3 DEF OpenAssign, OpenUpdate
    <3>2. call'[c].pc \notin Answers /\ \A d \in Calls : d # c => call'[d] = call[d]
      <4>1. CASE Proceed(c, call[c].op)
        BY <2>10, <4>1
      <4>2. CASE call' = [call EXCEPT ![c].pc = "update", ![c].row = <<>>]
        BY <1>3, <4>2 DEF Answers, CallRecords
      <4>3. CASE call' = [call EXCEPT ![c].pc = "opening"]
        BY <1>3, <4>3 DEF Answers, CallRecords
      <4>4. QED
        BY <3>1, <4>1, <4>2, <4>3
    <3>3. QED
      BY <3>2
  <2>4. CASE Lookup(c) \/ Purge(c)
    <3>1. \/ Issue(c, call[c].op)
          \/ call' = [call EXCEPT ![c].pc = "done", ![c].out = "hit"]
          \/ call' = [call EXCEPT ![c].pc = "purge"]
      BY <2>4 DEF Lookup, Purge
    <3>2. call'[c].pc \notin Answers /\ \A d \in Calls : d # c => call'[d] = call[d]
      <4>1. CASE Issue(c, call[c].op)
        BY <2>11, <4>1
      <4>2. CASE call' = [call EXCEPT ![c].pc = "done", ![c].out = "hit"]
        BY <1>3, <4>2 DEF Answers, CallRecords
      <4>3. CASE call' = [call EXCEPT ![c].pc = "purge"]
        BY <1>3, <4>3 DEF Answers, CallRecords
      <4>4. QED
        BY <3>1, <4>1, <4>2, <4>3
    <3>3. QED
      BY <3>2
  <2>5. CASE \E op \in Ops : Begin(c, op) \/ BadLink(c, op)
    <3>1. PICK op \in Ops : Begin(c, op) \/ BadLink(c, op)
      BY <2>5
    <3>2. \/ Issue(c, op)
          \/ call' = [call EXCEPT ![c].op = op, ![c].pc = "lookup"]
          \/ call' = [call EXCEPT ![c].op = op, ![c].pc = "done", ![c].out = "LoginError"]
      BY <3>1 DEF Begin, BadLink
    <3>3. call'[c].pc \notin Answers /\ \A d \in Calls : d # c => call'[d] = call[d]
      <4>1. CASE Issue(c, op)
        BY <2>11, <4>1
      <4>2. CASE call' = [call EXCEPT ![c].op = op, ![c].pc = "lookup"]
        BY <1>3, <4>2 DEF Answers, CallRecords
      <4>3. CASE call' = [call EXCEPT ![c].op = op, ![c].pc = "done", ![c].out = "LoginError"]
        BY <1>3, <4>3 DEF Answers, CallRecords
      <4>4. QED
        BY <3>2, <4>1, <4>2, <4>3
    <3>4. QED
      BY <3>3
  <2>6. QED
    BY <2>1, <2>2, <2>3, <2>4, <2>5 DEF Local
<1>5. QED
  BY <1>1, <1>2, <1>4, CacheFrame

\* Every step keeps what is known of the cache.
LEMMA StepCache == IInv /\ CacheInv /\ [Next]_vars => CacheInv'
<1> SUFFICES ASSUME IInv, CacheInv, [Next]_vars PROVE CacheInv'
  OBVIOUS
<1>1. call \in [Calls -> CallRecords]
  BY DEF IInv, Types
<1>2. ASSUME NEW c \in Calls, Answered(c) PROVE CacheInv'
  <2>1. PICK status \in Statuses, applied \in BOOLEAN, names \in SetCookies :
           Answer(c, status, names) /\ Serve(c, applied)
    BY <1>2 DEF Answered
  <2>2. /\ call[c].pc = "sent" /\ call'[c].op = call[c].op
        /\ \A d \in Calls : d # c => call'[d] = call[d]
    BY <1>1, <2>1 DEF Answer, CallRecords
  <2>3. UNCHANGED <<cache, acked, raced>>
    BY <1>2 DEF Answered
  <2>4. QED
    BY <2>1, <2>2, <2>3, CacheServed
<1>3. ASSUME NEW c \in Calls, Lost(c) PROVE CacheInv'
  <2>1. PICK applied \in BOOLEAN : Lose(c) /\ Serve(c, applied)
    BY <1>3 DEF Lost
  <2>2. /\ call[c].pc = "sent" /\ call'[c].op = call[c].op
        /\ \A d \in Calls : d # c => call'[d] = call[d]
    BY <1>1, <2>1 DEF Lose, CallRecords
  <2>3. UNCHANGED <<cache, acked, raced>>
    BY <1>3 DEF Lost
  <2>4. QED
    BY <2>1, <2>2, <2>3, CacheServed
<1>4. ASSUME NEW c \in Calls, Step(c) \/ \E op \in Ops : Begin(c, op) \/ BadLink(c, op)
      PROVE  CacheInv'
  BY <1>2, <1>3, <1>4, CacheKept, CacheFilled, CacheDropped DEF Step
<1>5. CASE (Tick \/ Close) /\ UNCHANGED clientVars
  <2>1. UNCHANGED <<server, acked, val, raced, cache, call>>
    BY <1>5 DEF clientVars, Tick, Close
  <2>2. QED
    BY <2>1, CacheFrame
<1>6. CASE Land /\ UNCHANGED clientVars
  <2>1. UNCHANGED <<server, acked, val, raced, cache>>
    BY <1>6 DEF clientVars
  <2>2. PICK n \in 1..Len(writes) :
           IF call[writes[n].by].pc = "opening"
           THEN Proceed(writes[n].by, call[writes[n].by].op)
           ELSE call' = [call EXCEPT ![writes[n].by].pc = "parse"]
    BY <1>6 DEF Land
  <2>3. writes[n] \in Writes
    BY DEF IInv, Types
  <2>4. PICK b \in Calls : b = writes[n].by
    BY <2>3 DEF Writes
  <2>5. call[b].pc \in {"opening", "saving"}
    BY <2>4 DEF IInv, JarInv
  <2>6. IF call[b].pc = "opening" THEN Proceed(b, call[b].op)
        ELSE call' = [call EXCEPT ![b].pc = "parse"]
    BY <2>2, <2>4
  <2>7. \A d \in Calls : call'[d].pc \in Answers => call[d].pc \in Answers /\ call'[d].op = call[d].op
    <3>1. CASE call[b].pc = "opening"
      BY <1>1, <2>6, <3>1 DEF Proceed, Launch, Answers, CallRecords
    <3>2. CASE call[b].pc = "saving"
      BY <1>1, <2>6, <3>2 DEF Answers, CallRecords
    <3>3. QED
      BY <2>5, <3>1, <3>2
  <2>8. QED
    BY <2>1, <2>7, CacheFrame
<1>7. CASE UNCHANGED vars
  <2>1. UNCHANGED <<server, acked, val, raced, cache, call>>
    BY <1>7 DEF vars, sessionVars, clientVars
  <2>2. QED
    BY <2>1, CacheFrame
<1>8. QED
  BY <1>4, <1>5, <1>6, <1>7 DEF Next

(* ClaudeAIClient's cache: an entry older than an update which drops it    *)
(* and has returned was made by a read that was under way when the update  *)
(* dropped it.  An update does not leave an older entry behind, and a read *)
(* that begins afterwards does not bring one back.                         *)
THEOREM NoStaleSurvivorHolds == Spec => []NoStaleSurvivor
<1>1. Init => CacheInv
  <2> SUFFICES ASSUME Init PROVE CacheInv
    OBVIOUS
  <2>1. \A c \in Calls : call[c].pc = "idle"
    BY DEF Init, SessionInit, NoCall
  <2>2. QED
    BY <2>1 DEF Init, CacheInv, NoStaleSurvivor, Answers
<1>2. CacheInv => NoStaleSurvivor
  BY DEF CacheInv
<1>3. QED
  BY <1>1, <1>2, StepCache, InvariantIInv, PTL DEF Spec

=============================================================================

-------------------------- MODULE Streaming_proofs --------------------------
(***************************************************************************)
(* The safety of Streaming, for any number of answers, proxies and pieces  *)
(* of text.  The inductive invariant has one part per concern: how far the *)
(* reader of an answer may lag behind the server (Reading), what the       *)
(* gateway's client has received so far (Spoken), the rotation of the      *)
(* proxies (Rotation), the books of the bus (Counts) and how often it did  *)
(* not deliver once (Slipped).                                             *)
(***************************************************************************)
EXTENDS Streaming, FiniteSetTheorems, WellFoundedInduction, TLAPS

PCs == {"idle", "connect", "dial", "read", "yield", "over", "gone"}
Events == {"none", "start", "text", "other", "bare", "stop"}

StRecords == [pc : PCs, mode : Modes \cup {"none"}, proxy : 0..Proxies,
              event : Events, data : {"none", "ok", "broken", "odd"},
              text : 0..MaxPieces, got : 0..MaxPieces, said : -1..MaxPieces,
              uuid : {"none", "known"}]
SentRecords == [phase : {"start", "body", "stop"}, pieces : 0..MaxPieces]
Frames == {Role, ToolFrame, Finish, Event, Error, Done} \cup {Text(n) : n \in Nat}

Types ==
    /\ st \in [Streams -> StRecords] /\ sent \in [Streams -> SentRecords]
    /\ frames \in [Streams -> Seq(Frames)]
    /\ cursor \in 0..(Proxies - 1) /\ unserved \in [1..Proxies -> Nat]
    /\ bus \in [Kinds -> Nat] /\ metrics \in [started : Nat, completed : Nat]
    /\ blacklist \in [1..Proxies -> Nat]
    /\ surplus \in [Kinds -> Int] /\ slips \in Nat

\* The phase of the server that goes with the event that is being read.
PhaseOf(e) == CASE e = "stop" -> "stop" [] OTHER -> "body"

\* r: the coroutines of an answer, x: what the server has sent of it.  Only a
\* piece of text on its way separates the three counts of pieces.
Reading(r, x) ==
    /\ r.pc = "idle" <=> r.mode = "none"
    /\ r.pc = "dial" => r.proxy \in 1..Proxies
    /\ r.pc \in {"idle", "connect", "dial"} =>
         /\ r.event = "none" /\ r.text = 0 /\ r.got = 0
         /\ x.phase = "start" /\ x.pieces = 0
    /\ r.pc \in {"read", "yield"} =>
         /\ r.event # "none" => x.phase = PhaseOf(r.event)
         /\ r.event # "text" => r.text = r.got /\ x.pieces = r.got
         /\ r.event = "text" => x.pieces = r.got + 1
    /\ r.pc = "read" => r.text = r.got
    /\ r.pc = "yield" => /\ r.event \notin {"none", "bare"}
                         /\ r.text = x.pieces
    /\ r.pc \in {"over", "gone"} => r.event = "none"
    /\ r.said >= 0 => /\ r.event = "none" /\ r.pc \in {"read", "over", "gone"}
                      /\ x.phase = "stop" /\ r.said = x.pieces /\ r.got = x.pieces
    /\ r.pc = "read" /\ x.phase = "stop" /\ r.event = "none" => r.said >= 0
    /\ r.uuid = "known" => x.phase # "start" /\ ~(r.pc = "read" /\ r.event = "start")

\* The frames of an answer that has not come to its end.
OpenFrames(mode, got, f) ==
    /\ mode = "live" => /\ Len(f) = got + 1 /\ f[1] = Role
                        /\ \A i \in 2..Len(f) : f[i] = Text(i - 1)
    /\ mode = "method" => \A i \in 1..Len(f) : f[i] = Event
    /\ mode \notin {"live", "method"} => f = <<>>

TextOK(mode, got, f) ==
    IF mode = "live" THEN TextAt(f) = 2..(got + 1) /\ \A i \in TextAt(f) : f[i] = Text(i - 1)
    ELSE \A i \in TextAt(f) : TextAt(f) = {i} /\ f[i] = Text(got)

Closing(f) == {i \in 1..Len(f) : f[i] \in {Finish, ToolFrame, Error}}

EndsOK(mode, f) ==
    /\ Len(f) > 0 /\ f[Len(f)] = Done
    /\ \A i \in 1..(Len(f) - 1) : f[i] # Done
    /\ Cardinality(Closing(f)) =
         IF mode = "method" /\ Error \notin {f[i] : i \in 1..Len(f)} THEN 0 ELSE 1

Spoken(r, f) ==
    /\ r.pc # "over" => OpenFrames(r.mode, r.got, f)
    /\ r.pc = "over" => /\ TextOK(r.mode, r.got, f)
                        /\ r.mode \notin Plain => EndsOK(r.mode, f)

StreamInv == \A s \in Streams : Reading(st[s], sent[s]) /\ Spoken(st[s], frames[s])

\* How many get() calls the proxy waits for at most: its distance from the
\* cursor of the cycle.
Distance(c, p) == IF p - 1 >= c THEN p - 1 - c ELSE p - 1 - c + Proxies
Rotation == \A p \in 1..Proxies : unserved[p] + Distance(cursor, p) <= Proxies - 1

\* The answers that are over, announced as completed, announced as started.
OverSet == {s \in Streams : st[s].pc = "over"}
SaidSet == {s \in Streams : st[s].said >= 0}
NamedSet == {s \in Streams : st[s].uuid = "known"}

\* What is still to be counted of a kind of message.
Due(k) == bus[k] - surplus[k]

Counts ==
    /\ \A p \in 1..Proxies : blacklist[p] + Due(Invalid(p)) <= Cardinality(OverSet)
    /\ metrics.completed + Due(Complete) = Cardinality(SaidSet)
    /\ metrics.started + Due(Started) = Cardinality(NamedSet)

\* No kind of message can have slipped more often than messages have.
Slipped == slips <= MaxSlips /\ \A k \in Kinds : surplus[k] <= slips

IInv == Types /\ StreamInv /\ Rotation /\ Counts /\ Slipped

---------------------------------------------------------------------------
(* The words: the frames and the kinds of bus messages are told apart.     *)

\* Every frame has a first word, and it tells which frame it is.
LEMMA FrameWords ==
  /\ Role[1] = "role" /\ ToolFrame[1] = "calls" /\ Finish[1] = "finish"
  /\ Event[1] = "event" /\ Error[1] = "error" /\ Done[1] = "DONE"
  /\ \A n \in Nat : Text(n)[1] = "text"
BY DEF Role, ToolFrame, Finish, Event, Error, Done, Text

\* The frames the handlers send.
LEMMA FrameTypes ==
  /\ Role \in Frames /\ ToolFrame \in Frames /\ Finish \in Frames
  /\ Event \in Frames /\ Error \in Frames /\ Done \in Frames
  /\ \A n \in Nat : Text(n) \in Frames
BY DEF Frames

\* The messages of the bus are different messages.
LEMMA KindFacts ==
  /\ Started \in Kinds /\ Complete \in Kinds /\ Started # Complete
  /\ \A p \in 1..Proxies : Invalid(p) \in Kinds /\ Invalid(p) # Started /\ Invalid(p) # Complete
  /\ \A p, q \in 1..Proxies : Invalid(p) = Invalid(q) => p = q
BY DEF Kinds, Started, Complete, Invalid

---------------------------------------------------------------------------
(* The frames of an answer that comes to its end.                          *)

\* Before the end nothing is sent that could be taken for an end.
LEMMA OpenWords ==
  ASSUME NEW f \in Seq(Frames), NEW mode, NEW got \in Nat, OpenFrames(mode, got, f)
  PROVE  \A i \in 1..Len(f) : f[i][1] \in {"role", "text", "event"}
<1>1. CASE mode = "live"
  <2>1. Len(f) \in Nat /\ f[1] = Role /\ \A i \in 2..Len(f) : f[i] = Text(i - 1)
    BY <1>1 DEF OpenFrames
  <2>2. \A i \in 2..Len(f) : f[i][1] = "text"
    <3> TAKE i \in 2..Len(f)
    <3>1. i - 1 \in Nat
      BY <2>1
    <3>2. QED
      BY <2>1, <3>1, FrameWords
  <2>3. \A i \in 1..Len(f) : i = 1 \/ i \in 2..Len(f)
    BY <2>1
  <2>4. QED
    BY <2>1, <2>2, <2>3, FrameWords
<1>2. CASE mode # "live"
  BY <1>2, FrameWords DEF OpenFrames
<1>3. QED
  BY <1>1, <1>2

\* The end e is one DONE, with one closing frame right before it; only the
\* events of a method need none.
LEMMA EndFrames ==
  ASSUME NEW f \in Seq(Frames), NEW e \in Seq(Frames), NEW mode,
         \A i \in 1..Len(f) : f[i][1] \in {"role", "text", "event"},
         Len(e) > 0, e[Len(e)] = Done, \A i \in 1..(Len(e) - 1) : e[i] # Done,
         \/ /\ Closing(e) = {Len(e) - 1}
            /\ mode = "method" => e[Len(e) - 1] = Error
         \/ mode = "method" /\ Closing(e) = {}
  PROVE  EndsOK(mode, f \o e)
<1> DEFINE g == f \o e
<1>1. /\ Len(f) \in Nat /\ Len(e) \in Nat /\ Len(g) = Len(f) + Len(e) /\ g \in Seq(Frames)
      /\ \A i \in 1..Len(g) : g[i] = IF i <= Len(f) THEN f[i] ELSE e[i - Len(f)]
  OBVIOUS
<1> HIDE DEF g
<1>2. Len(g) > 0 /\ g[Len(g)] = Done
  <2>1. Len(g) \in 1..Len(g) /\ ~(Len(g) <= Len(f)) /\ Len(g) - Len(f) = Len(e)
    BY <1>1
  <2>2. QED
    BY <1>1, <2>1
<1>3. \A i \in 1..Len(f) : f[i] # Done /\ f[i] \notin {Finish, ToolFrame, Error}
  BY FrameWords
<1>4. \A i \in 1..(Len(g) - 1) : g[i] # Done
  <2> TAKE i \in 1..(Len(g) - 1)
  <2>1. i \in 1..Len(g) /\ (~(i <= Len(f)) => i - Len(f) \in 1..(Len(e) - 1)) /\ (i <= Len(f) => i \in 1..Len(f))
    BY <1>1
  <2>2. QED
    BY <1>1, <1>3, <2>1
<1>5. \A i \in 1..Len(g) : i \in Closing(g) <=> i > Len(f) /\ i - Len(f) \in Closing(e)
  <2> TAKE i \in 1..Len(g)
  <2>1. CASE i <= Len(f)
    <3>1. i \in 1..Len(f) /\ ~(i > Len(f))
      BY <1>1, <2>1
    <3>2. g[i] = f[i]
      BY <1>1, <2>1
    <3>3. QED
      BY <1>3, <3>1, <3>2 DEF Closing
  <2>2. CASE ~(i <= Len(f))
    <3>1. i > Len(f) /\ i - Len(f) \in 1..Len(e)
      BY <1>1, <2>2
    <3>2. g[i] = e[i - Len(f)]
      BY <1>1, <2>2
    <3>3. QED
      BY <3>1, <3>2 DEF Closing
  <2>3. QED
    BY <2>1, <2>2
<1>6. CASE /\ Closing(e) = {Len(e) - 1}
           /\ mode = "method" => e[Len(e) - 1] = Error
  <2>1. Len(e) - 1 \in 1..Len(e) /\ Len(f) + (Len(e) - 1) \in 1..Len(g)
    <3>1. Len(e) - 1 \in 1..Len(e)
      BY <1>6 DEF Closing
    <3>2. QED
      BY <1>1, <3>1
  <2>2. Closing(g) = {Len(f) + (Len(e) - 1)}
    <3>1. \A i \in 1..Len(g) : i > Len(f) /\ i - Len(f) = Len(e) - 1 <=> i = Len(f) + (Len(e) - 1)
      BY <1>1, <2>1
    <3>2. \A i \in 1..Len(g) : i \in Closing(g) <=> i = Len(f) + (Len(e) - 1)
      BY <1>5, <1>6, <3>1
    <3>3. Closing(g) \subseteq 1..Len(g)
      BY DEF Closing
    <3>4. QED
      BY <2>1, <3>2, <3>3
  <2>3. Cardinality(Closing(g)) = 1
    BY <2>2, FS_Singleton
  <2>4. mode = "method" => g[Len(f) + (Len(e) - 1)] = Error
    BY <1>1, <1>6, <2>1
  <2>5. QED
    BY <1>2, <1>4, <2>1, <2>3, <2>4 DEF EndsOK, g
<1>7. CASE mode = "method" /\ Closing(e) = {}
  <2>1. Closing(g) = {}
    <3>1. Closing(g) \subseteq 1..Len(g)
      BY DEF Closing
    <3>2. QED
      BY <1>5, <1>7, <3>1
  <2>2. Error \notin {g[i] : i \in 1..Len(g)}
    BY <2>1 DEF Closing
  <2>3. Cardinality(Closing(g)) = 0
    BY <2>1, FS_EmptySet
  <2>4. QED
    BY <1>2, <1>4, <1>7, <2>2, <2>3 DEF EndsOK, g
<1>8. QED
  BY <1>6, <1>7

\* Where an end without text leaves the text: where it was.
LEMMA TextStays ==
  ASSUME NEW f \in Seq(Frames), NEW e \in Seq(Frames),
         \A i \in 1..Len(e) : e[i][1] # "text"
  PROVE  /\ TextAt(f \o e) = TextAt(f)
         /\ \A i \in TextAt(f) : (f \o e)[i] = f[i]
<1> DEFINE g == f \o e
<1>1. /\ Len(f) \in Nat /\ Len(e) \in Nat /\ Len(g) = Len(f) + Len(e)
      /\ \A i \in 1..Len(g) : g[i] = IF i <= Len(f) THEN f[i] ELSE e[i - Len(f)]
  OBVIOUS
<1> HIDE DEF g
<1>2. \A i \in 1..Len(f) : i \in 1..Len(g) /\ g[i] = f[i]
  BY <1>1
<1>3. \A i \in 1..Len(g) : i \in 1..Len(f) \/ g[i][1] # "text"
  <2> TAKE i \in 1..Len(g)
  <2>1. i \in 1..Len(f) \/ (~(i <= Len(f)) /\ i - Len(f) \in 1..Len(e))
    BY <1>1
  <2>2. QED
    BY <1>1, <2>1
<1>4. TextAt(g) = TextAt(f)
  BY <1>2, <1>3 DEF TextAt
<1>5. \A i \in TextAt(f) : g[i] = f[i]
  BY <1>2 DEF TextAt
<1>6. QED
  BY <1>4, <1>5 DEF g

\* An open answer has its text in order.
LEMMA OpenText ==
  ASSUME NEW f \in Seq(Frames), NEW mode, NEW got \in Nat, OpenFrames(mode, got, f)
  PROVE  TextOK(mode, got, f)
<1>1. CASE mode = "live"
  <2>1. /\ Len(f) = got + 1 /\ f[1] = Role
        /\ \A i \in 2..Len(f) : f[i] = Text(i - 1)
    BY <1>1 DEF OpenFrames
  <2>2. \A i \in 2..Len(f) : f[i][1] = "text" /\ i \in 1..Len(f)
    <3> TAKE i \in 2..Len(f)
    <3>1. i - 1 \in Nat /\ i \in 1..Len(f)
      BY <2>1
    <3>2. QED
      BY <2>1, <3>1, FrameWords
  <2>3. \A i \in 1..Len(f) : i = 1 \/ i \in 2..Len(f)
    BY <2>1
  <2>4. f[1][1] # "text"
    BY <2>1, FrameWords
  <2>5. TextAt(f) = 2..Len(f)
    BY <2>2, <2>3, <2>4 DEF TextAt
  <2>6. QED
    BY <1>1, <2>1, <2>5 DEF TextOK
<1>2. CASE mode # "live"
  <2>1. \A i \in 1..Len(f) : f[i] = Event
    BY <1>2 DEF OpenFrames
  <2>2. TextAt(f) = {}
    BY <2>1, FrameWords DEF TextAt
  <2>3. QED
    BY <1>2, <2>2 DEF TextOK
<1>3. QED
  BY <1>1, <1>2

\* Frames without text keep the text in order.
LEMMA TextKept ==
  ASSUME NEW f \in Seq(Frames), NEW e \in Seq(Frames), NEW mode, NEW got,
         \A i \in 1..Len(e) : e[i][1] # "text", TextOK(mode, got, f)
  PROVE  TextOK(mode, got, f \o e)
<1> DEFINE g == f \o e
<1>1. TextAt(g) = TextAt(f) /\ \A i \in TextAt(f) : g[i] = f[i]
  BY TextStays
<1> HIDE DEF g
<1>2. TextOK(mode, got, g)
  BY <1>1, Zenon DEF TextOK
<1>3. QED
  BY <1>2 DEF g

\* A refusal or an exception: one error, then DONE where the answer streams.
LEMMA RefusalEnds ==
  ASSUME NEW f \in Seq(Frames), NEW mode, NEW got \in Nat,
         OpenFrames(mode, got, f) \/ (f = <<>> /\ got = 0)
  PROVE  /\ f \o Refusal(mode) \in Seq(Frames)
         /\ TextOK(mode, got, f \o Refusal(mode))
         /\ mode \notin Plain => EndsOK(mode, f \o Refusal(mode))
<1> DEFINE e == Refusal(mode)
<1>1. /\ e \in Seq(Frames) /\ \A i \in 1..Len(e) : e[i][1] # "text"
      /\ mode \notin Plain => e = <<Error, Done>>
  <2>1. <<Error>> \in Seq(Frames) /\ \A i \in 1..Len(<<Error>>) : <<Error>>[i][1] # "text"
    BY FrameTypes, FrameWords
  <2>2. /\ <<Error, Done>> \in Seq(Frames)
        /\ \A i \in 1..Len(<<Error, Done>>) : <<Error, Done>>[i][1] # "text"
    <3>1. \A i \in 1..2 : <<Error, Done>>[i] \in {Error, Done}
      OBVIOUS
    <3>2. QED
      BY <3>1, FrameTypes, FrameWords
  <2>3. QED
    BY <2>1, <2>2 DEF Refusal
<1> HIDE DEF e
<1>2. TextOK(mode, got, f)
  <2>1. CASE f = <<>> /\ got = 0
    <3>1. TextAt(f) = {} /\ 2..(got + 1) = {}
      BY <2>1 DEF TextAt
    <3>2. QED
      BY <3>1 DEF TextOK
  <2>2. QED
    BY <2>1, OpenText
<1>3. TextOK(mode, got, f \o e)
  BY <1>1, <1>2, TextKept
<1>4. \A i \in 1..Len(f) : f[i][1] \in {"role", "text", "event"}
  <2>1. CASE f = <<>>
    BY <2>1
  <2>2. QED
    BY <2>1, OpenWords
<1>5. ASSUME mode \notin Plain PROVE EndsOK(mode, f \o e)
  <2>1. Len(e) = 2 /\ e[1] = Error /\ e[2] = Done
    BY <1>1, <1>5
  <2>2. \A i \in 1..2 : i = 1 \/ i = 2
    OBVIOUS
  <2>3. Error # Done /\ Done \notin {Finish, ToolFrame, Error}
    BY FrameWords
  <2>4. Closing(e) = {1}
    BY <2>1, <2>2, <2>3 DEF Closing
  <2>5. \A i \in 1..(Len(e) - 1) : e[i] # Done
    BY <2>1, <2>3
  <2>6. Len(e) > 0 /\ Len(e) - 1 = 1 /\ e[Len(e)] = Done
    BY <2>1
  <2>7. QED
    BY <1>1, <1>4, <2>1, <2>4, <2>5, <2>6, EndFrames
<1>6. f \o e \in Seq(Frames)
  BY <1>1
<1>7. QED
  BY <1>3, <1>5, <1>6 DEF e

\* The four frames of an answer that is sent at once.
LEMMA FourFrames ==
  ASSUME NEW S, NEW x \in S, NEW y \in S, NEW z \in S, NEW w \in S, NEW e,
         e = <<x>> \o <<y>> \o <<z, w>>
  PROVE  e \in Seq(S) /\ Len(e) = 4 /\ e[1] = x /\ e[2] = y /\ e[3] = z /\ e[4] = w
<1> DEFINE a == <<x>> \o <<y>>
           b == <<z, w>>
<1>1. a \in Seq(S) /\ Len(a) = 2 /\ a[1] = x /\ a[2] = y
  OBVIOUS
<1>2. b \in Seq(S) /\ Len(b) = 2 /\ b[1] = z /\ b[2] = w
  OBVIOUS
<1>3. e = a \o b
  OBVIOUS
<1> HIDE DEF a, b
<1>4. QED
  BY <1>1, <1>2, <1>3

\* The events have come to an end: what each kind of answer is closed with.
LEMMA AnswerEnds ==
  ASSUME NEW f \in Seq(Frames), NEW mode \in Modes, NEW got \in Nat, OpenFrames(mode, got, f)
  PROVE  /\ f \o Answer(mode, got) \in Seq(Frames)
         /\ TextOK(mode, got, f \o Answer(mode, got))
         /\ mode \notin Plain => EndsOK(mode, f \o Answer(mode, got))
<1> DEFINE e == Answer(mode, got)
<1>0. Done \notin {Role, Finish, ToolFrame, Error} /\ Role \notin {Finish, ToolFrame, Error}
  BY FrameWords
<1>01. Text(got) \in Frames /\ Text(got)[1] = "text" /\ Text(got) # Done
       /\ Text(got) \notin {Finish, ToolFrame, Error}
  BY FrameWords, FrameTypes
<1>02. (\A i \in 1..1 : i = 1) /\ (\A i \in 1..2 : i = 1 \/ i = 2)
       /\ (\A i \in 1..3 : i = 1 \/ i = 2 \/ i = 3)
       /\ (\A i \in 1..4 : i = 1 \/ i = 2 \/ i = 3 \/ i = 4)
  OBVIOUS
<1>1. TextOK(mode, got, f) /\ \A i \in 1..Len(f) : f[i][1] \in {"role", "text", "event"}
  BY OpenText, OpenWords
<1>2. CASE mode = "live"
  <2>1. e = <<Finish, Done>>
    BY <1>2 DEF Answer, Plain
  <2>2. e \in Seq(Frames) /\ Len(e) = 2 /\ e[1] = Finish /\ e[2] = Done
    BY <2>1, FrameTypes
  <2> HIDE DEF e
  <2>3. \A i \in 1..Len(e) : e[i][1] # "text"
    BY <1>02, <2>2, FrameWords
  <2>4. Closing(e) = {1}
    BY <1>0, <1>02, <2>2 DEF Closing
  <2>5. \A i \in 1..(Len(e) - 1) : e[i] # Done
    BY <1>0, <2>2
  <2>6. EndsOK(mode, f \o e)
    <3>1. Len(e) > 0 /\ Len(e) - 1 = 1 /\ e[Len(e)] = Done
      BY <2>2
    <3>2. QED
      BY <1>1, <1>2, <2>2, <2>4, <2>5, <3>1, EndFrames
  <2>7. TextOK(mode, got, f \o e)
    BY <1>1, <2>2, <2>3, TextKept
  <2>8. f \o e \in Seq(Frames)
    BY <2>2
  <2>9. QED
    BY <2>6, <2>7, <2>8 DEF e
<1>3. CASE mode = "method"
  <2>1. e = <<Done>>
    BY <1>3 DEF Answer, Plain
  <2>2. e \in Seq(Frames) /\ Len(e) = 1 /\ e[1] = Done
    BY <2>1, FrameTypes
  <2> HIDE DEF e
  <2>3. \A i \in 1..Len(e) : e[i][1] # "text"
    BY <1>02, <2>2, FrameWords
  <2>4. Closing(e) = {}
    BY <1>0, <1>02, <2>2 DEF Closing
  <2>5. \A i \in 1..(Len(e) - 1) : e[i] # Done
    BY <2>2
  <2>6. EndsOK(mode, f \o e)
    <3>1. Len(e) > 0 /\ e[Len(e)] = Done
      BY <2>2
    <3>2. QED
      BY <1>1, <1>3, <2>2, <2>4, <2>5, <3>1, EndFrames
  <2>7. TextOK(mode, got, f \o e)
    BY <1>1, <2>2, <2>3, TextKept
  <2>8. f \o e \in Seq(Frames)
    BY <2>2
  <2>9. QED
    BY <2>6, <2>7, <2>8 DEF e
<1>4. CASE mode \in Plain
  <2>1. f = <<>> /\ mode # "live"
    BY <1>4 DEF OpenFrames, Plain
  <2>2. e = <<ToolFrame>> \/ e = <<Text(got)>>
    BY <1>4 DEF Answer, Reply, Plain
  <2>3. e \in Seq(Frames) /\ Len(e) = 1 /\ e[1] \in {ToolFrame, Text(got)}
    <3>1. PICK x \in Frames : e = <<x>> /\ x \in {ToolFrame, Text(got)}
      BY <1>01, <2>2, FrameTypes
    <3>2. QED
      BY <3>1
  <2> HIDE DEF e
  <2>4. TextAt(e) \subseteq {1} /\ \A i \in TextAt(e) : e[i] = Text(got)
    BY <1>02, <2>3, FrameWords DEF TextAt
  <2>5. f \o e = e
    BY <2>1, <2>3
  <2>6. TextOK(mode, got, e)
    BY <2>1, <2>4 DEF TextOK
  <2>7. QED
    BY <1>4, <2>3, <2>5, <2>6 DEF e
<1>5. CASE mode = "buffered"
  <2>1. f = <<>> /\ mode # "live"
    BY <1>5 DEF OpenFrames
  <2>2. \/ e = <<Role, ToolFrame, Done>>
        \/ e = <<Role>> \o <<Text(got)>> \o <<Finish, Done>>
        \/ e = <<Role>> \o <<>> \o <<Finish, Done>>
    BY <1>5 DEF Answer, Plain
  <2>3. \/ e \in Seq(Frames) /\ Len(e) = 3 /\ e[1] = Role /\ e[2] \in {ToolFrame, Finish} /\ e[3] = Done
        \/ e \in Seq(Frames) /\ Len(e) = 4 /\ e[1] = Role /\ e[2] = Text(got) /\ e[3] = Finish /\ e[4] = Done
    <3>1. CASE e = <<Role, ToolFrame, Done>>
      BY <3>1, FrameTypes
    <3>2. CASE e = <<Role>> \o <<Text(got)>> \o <<Finish, Done>>
      <4>1. PICK x \in Frames : x = Text(got)
        BY <1>01
      <4>2. e = <<Role>> \o <<x>> \o <<Finish, Done>>
        BY <3>2, <4>1
      <4>3. QED
        BY <4>1, <4>2, FrameTypes, FourFrames
    <3>3. CASE e = <<Role>> \o <<>> \o <<Finish, Done>>
      <4>1. <<Role>> \in Seq(Frames) /\ <<Finish, Done>> \in Seq(Frames)
        BY FrameTypes
      <4>2. <<Role>> \o <<>> = <<Role>>
        BY <4>1
      <4>3. e = <<Role>> \o <<Finish, Done>>
        BY <3>3, <4>2
      <4>4. QED
        BY <4>1, <4>3
    <3>4. QED
      BY <2>2, <3>1, <3>2, <3>3
  <2> HIDE DEF e
  <2>4. TextOK(mode, got, e)
    <3>1. TextAt(e) \subseteq {2} /\ \A i \in TextAt(e) : e[i] = Text(got)
      BY <1>02, <2>3, FrameWords DEF TextAt
    <3>2. QED
      BY <2>1, <3>1 DEF TextOK
  <2>5. Closing(e) = {Len(e) - 1}
    <3>1. CASE Len(e) = 3
      BY <1>0, <1>02, <2>3, <3>1 DEF Closing
    <3>2. CASE Len(e) = 4
      BY <1>0, <1>01, <1>02, <2>3, <3>2 DEF Closing
    <3>3. QED
      BY <2>3, <3>1, <3>2
  <2>6. \A i \in 1..(Len(e) - 1) : e[i] # Done
    <3>1. CASE Len(e) = 3
      BY <1>0, <1>02, <2>3, <3>1
    <3>2. CASE Len(e) = 4
      BY <1>0, <1>01, <1>02, <2>3, <3>2
    <3>3. QED
      BY <2>3, <3>1, <3>2
  <2>7. e \in Seq(Frames) /\ Len(e) > 0 /\ e[Len(e)] = Done
    BY <2>3
  <2>8. EndsOK(mode, f \o e)
    BY <1>1, <1>5, <2>5, <2>6, <2>7, EndFrames
  <2>9. f \o e = e
    BY <2>1, <2>7
  <2>10. QED
    BY <2>4, <2>7, <2>8, <2>9 DEF e
<1>6. QED
  BY <1>2, <1>3, <1>4, <1>5 DEF Modes, Plain

---------------------------------------------------------------------------
(* The rotation of the proxies.                                            *)

\* A set of natural numbers has a least element.
LEMMA LeastNatural ==
  ASSUME NEW T \in SUBSET Nat, T # {}
  PROVE  \E k \in T : \A j \in T : k <= j
<1>1. PICK k \in T : \A j \in T : ~(<<j, k>> \in OpToRel(<, Nat))
  BY NatLessThanWellFounded, WFMin
<1>2. \A j \in T : j \in Nat /\ k \in Nat /\ ~(j < k)
  BY <1>1 DEF OpToRel
<1>3. QED
  BY <1>2

\* Twice round the list at most: where the cycle stands.
LEMMA Wrap ==
  ASSUME NEW P \in Nat \ {0}, NEW i \in 0..(2 * P)
  PROVE  i % P = IF i < P THEN i ELSE IF i < 2 * P THEN i - P ELSE 0
<1>1. CASE i < P
  BY <1>1
<1>2. CASE P <= i /\ i < 2 * P
  BY <1>2
<1>3. CASE i = 2 * P
  BY <1>3
<1>4. QED
  BY <1>1, <1>2, <1>3

\* The distance is what it takes to reach the proxy.
LEMMA Reached ==
  ASSUME NEW c \in 0..(Proxies - 1), NEW q \in 1..Proxies
  PROVE  Distance(c, q) \in 0..(Proxies - 1) /\ Place(c + Distance(c, q)) = q
<1>1. Proxies \in Nat \ {0}
  BY StreamingAssumption
<1>2. Distance(c, q) \in 0..(Proxies - 1) /\ c + Distance(c, q) \in 0..(2 * Proxies)
  BY <1>1 DEF Distance
<1>3. (c + Distance(c, q)) % Proxies = q - 1
  <2>1. \/ c + Distance(c, q) = q - 1 /\ q - 1 < Proxies
        \/ c + Distance(c, q) = q - 1 + Proxies /\ q - 1 >= 0
    BY <1>1 DEF Distance
  <2> DEFINE i == c + Distance(c, q)
  <2>2. i % Proxies = IF i < Proxies THEN i ELSE IF i < 2 * Proxies THEN i - Proxies ELSE 0
    BY <1>1, <1>2, Wrap
  <2>3. i \in Nat /\ (i = q - 1 \/ i = q - 1 + Proxies)
    BY <1>2, <2>1
  <2> HIDE DEF i
  <2>4. i % Proxies = q - 1
    BY <1>1, <2>2, <2>3
  <2>5. QED
    BY <2>4 DEF i
<1>4. QED
  BY <1>2, <1>3 DEF Place

\* Past m proxies and one more, the others are that much nearer.
LEMMA Nearer ==
  ASSUME NEW c \in 0..(Proxies - 1), NEW q \in 1..Proxies, NEW m \in Nat,
         m + 1 <= Distance(c, q)
  PROVE  Distance((c + m + 1) % Proxies, q) = Distance(c, q) - (m + 1)
<1>1. Proxies \in Nat \ {0}
  BY StreamingAssumption
<1>2. m + 1 <= Proxies - 1 /\ c + m + 1 \in 0..(2 * Proxies) /\ c + m + 1 < 2 * Proxies
  <2>1. Distance(c, q) \in 0..(Proxies - 1)
    BY Reached
  <2>2. QED
    BY <1>1, <2>1
<1>3. (c + m + 1) % Proxies = IF c + m + 1 < Proxies THEN c + m + 1 ELSE (c + m + 1) - Proxies
  <2> DEFINE i == c + m + 1
  <2>1. i \in 0..(2 * Proxies) /\ i < 2 * Proxies
    BY <1>2
  <2> HIDE DEF i
  <2>2. i % Proxies = IF i < Proxies THEN i ELSE i - Proxies
    BY <1>1, <2>1, Wrap
  <2>3. QED
    BY <2>2 DEF i
<1>4. QED
  BY <1>1, <1>2, <1>3 DEF Distance

\* One more get() without it, and n + 1 places nearer.
LEMMA Shift ==
  ASSUME NEW u \in Nat, NEW k \in Nat, NEW n \in Nat, NEW b \in Int, n + 1 <= k, u + k <= b
  PROVE  (u + 1) + (k - (n + 1)) <= b
OBVIOUS

\* get() keeps the promise to every proxy: the one it serves and the unfit
\* ones start anew, and it moves towards all others.
LEMMA Rotate ==
  ASSUME Types, Rotation, NEW s \in Streams, TakeProxy(s)
  PROVE  /\ cursor' \in 0..(Proxies - 1) /\ unserved' \in [1..Proxies -> Nat] /\ Rotation'
         /\ \E p \in 1..Proxies : st' = [st EXCEPT ![s].pc = "dial", ![s].proxy = p]
<1> DEFINE steps == {k \in 0..(Proxies - 1) : Fit(Place(cursor + k))}
           skip  == IF steps = {} THEN Proxies
                    ELSE CHOOSE k \in steps : \A j \in steps : k <= j
           p     == Place(cursor + skip)
<1>1. /\ cursor' = (cursor + skip + 1) % Proxies
      /\ unserved' = [q \in 1..Proxies |->
                         IF q = p \/ ~Fit(q) THEN 0 ELSE unserved[q] + 1]
      /\ st' = [st EXCEPT ![s].pc = "dial", ![s].proxy = p]
  BY DEF TakeProxy
<1>2. /\ Proxies \in Nat \ {0} /\ cursor \in 0..(Proxies - 1) /\ unserved \in [1..Proxies -> Nat]
  BY StreamingAssumption DEF Types
<1>3. /\ skip \in 0..Proxies
      /\ \A j \in steps : skip <= j
  <2>1. steps \in SUBSET Nat /\ steps \subseteq 0..(Proxies - 1)
    OBVIOUS
  <2> HIDE DEF steps
  <2>2. CASE steps = {}
    BY <1>2, <2>2
  <2>3. CASE steps # {}
    <3>1. \E k \in steps : \A j \in steps : k <= j
      BY <2>1, <2>3, LeastNatural
    <3>2. skip \in steps /\ \A j \in steps : skip <= j
      BY <2>3, <3>1
    <3> HIDE DEF skip
    <3>3. QED
      BY <1>2, <2>1, <3>2
  <2>4. QED
    BY <2>2, <2>3
<1>4. \A q \in 1..Proxies : Fit(q) => Distance(cursor, q) \in steps
  BY <1>2, Reached
<1> HIDE DEF steps, skip
<1>5. /\ (cursor + skip) % Proxies \in 0..(Proxies - 1)
      /\ (cursor + skip + 1) % Proxies \in 0..(Proxies - 1)
  <2>1. cursor + skip \in Nat /\ cursor + skip + 1 \in Nat
    BY <1>2, <1>3
  <2>2. \A n \in Nat : n % Proxies \in 0..(Proxies - 1)
    BY <1>2
  <2>3. QED
    BY <2>1, <2>2
<1>6. p \in 1..Proxies
  BY <1>2, <1>5 DEF Place
<1>7. ASSUME NEW q \in 1..Proxies
      PROVE  unserved'[q] \in Nat /\ unserved'[q] + Distance(cursor', q) <= Proxies - 1
  <2>1. cursor' \in 0..(Proxies - 1) /\ Distance(cursor', q) \in 0..(Proxies - 1)
    BY <1>1, <1>5, Reached
  <2>2. CASE q = p \/ ~Fit(q)
    <3>1. unserved'[q] = 0
      BY <1>1, <2>2
    <3>2. QED
      BY <1>2, <2>1, <3>1
  <2>3. CASE ~(q = p \/ ~Fit(q))
    <3> DEFINE k == Distance(cursor, q)
    <3>1. unserved'[q] = unserved[q] + 1 /\ unserved[q] \in Nat
      BY <1>1, <1>2, <2>3
    <3>2. unserved[q] + k <= Proxies - 1
      BY DEF Rotation
    <3>3. k \in 0..(Proxies - 1) /\ q = Place(cursor + k)
      BY <1>2, Reached
    <3>4. skip <= k /\ skip # k
      BY <1>3, <1>4, <2>3, <3>3
    <3> HIDE DEF k
    <3>5. skip \in Nat /\ skip + 1 <= k
      BY <1>2, <1>3, <3>3, <3>4
    <3>6. Distance(cursor', q) = k - (skip + 1)
      BY <1>1, <1>2, <3>5, Nearer DEF k
    <3>7. QED
      <4>1. k \in Nat /\ Proxies - 1 \in Int
        BY <1>2, <3>3
      <4>2. (unserved[q] + 1) + (k - (skip + 1)) <= Proxies - 1
        BY <3>1, <3>2, <3>5, <4>1, Shift
      <4>3. QED
        BY <3>1, <3>6, <4>2
  <2>4. QED
    BY <2>2, <2>3
<1>8. unserved' \in [1..Proxies -> Nat]
  BY <1>1, <1>2
<1>9. QED
  BY <1>1, <1>5, <1>6, <1>7, <1>8 DEF Rotation

---------------------------------------------------------------------------
(* A step of one answer: what it must show of its own state so that the    *)
(* invariant holds for all.                                                *)

\* What the invariant says of one stream.
LEMMA StreamTypes ==
  ASSUME IInv, NEW s \in Streams
  PROVE  /\ st[s] \in StRecords /\ sent[s] \in SentRecords /\ frames[s] \in Seq(Frames)
         /\ Reading(st[s], sent[s]) /\ Spoken(st[s], frames[s])
         /\ st \in [Streams -> StRecords] /\ sent \in [Streams -> SentRecords]
         /\ frames \in [Streams -> Seq(Frames)]
BY DEF IInv, Types, StreamInv

\* The answer s moves from r to r1 and leaves the three sets of Counts such
\* that no message is owed.
Silently(r, r1) ==
    /\ r.pc = "over" => r1.pc = "over"
    /\ r1.said = r.said /\ r1.uuid = r.uuid

\* A step of one stream leaves the others as they are.
LEMMA Moved ==
  ASSUME IInv, NEW s \in Streams, NEW r \in StRecords, NEW x \in SentRecords, NEW f \in Seq(Frames),
         st' = [st EXCEPT ![s] = r], sent' = [sent EXCEPT ![s] = x],
         frames' = [frames EXCEPT ![s] = f], Reading(r, x), Spoken(r, f)
  PROVE  /\ st' \in [Streams -> StRecords] /\ sent' \in [Streams -> SentRecords]
         /\ frames' \in [Streams -> Seq(Frames)] /\ StreamInv'
         /\ \A d \in Streams : /\ st'[d] = IF d = s THEN r ELSE st[d]
                               /\ sent'[d] = IF d = s THEN x ELSE sent[d]
<1>1. /\ st' \in [Streams -> StRecords] /\ sent' \in [Streams -> SentRecords]
      /\ frames' \in [Streams -> Seq(Frames)]
  BY StreamTypes
<1>2. \A d \in Streams : /\ st'[d] = IF d = s THEN r ELSE st[d]
                         /\ sent'[d] = IF d = s THEN x ELSE sent[d]
                         /\ frames'[d] = IF d = s THEN f ELSE frames[d]
  BY StreamTypes
<1>3. StreamInv'
  <2>1. ASSUME NEW d \in Streams PROVE Reading(st'[d], sent'[d]) /\ Spoken(st'[d], frames'[d])
    <3>1. CASE d = s
      BY <1>2, <3>1
    <3>2. CASE d # s
      BY <1>2, <3>2, StreamTypes
    <3>3. QED
      BY <3>1, <3>2
  <2>2. QED
    BY <2>1 DEF StreamInv
<1>4. QED
  BY <1>1, <1>2, <1>3

\* How the three sets change when one answer moves.
LEMMA SetsMove ==
  ASSUME NEW s \in Streams, NEW r,
         \A d \in Streams : st'[d] = IF d = s THEN r ELSE st[d]
  PROVE  /\ (st[s].pc = "over" => r.pc = "over") => OverSet \subseteq OverSet'
         /\ r.said = st[s].said => SaidSet' = SaidSet
         /\ r.uuid = st[s].uuid => NamedSet' = NamedSet
<1>1. \A d \in Streams \ {s} : st'[d] = st[d]
  OBVIOUS
<1>2. st'[s] = r
  OBVIOUS
<1>3. \A d \in Streams : /\ d \in OverSet' <=> st'[d].pc = "over"
                         /\ d \in SaidSet' <=> st'[d].said >= 0
                         /\ d \in NamedSet' <=> st'[d].uuid = "known"
  BY DEF OverSet, SaidSet, NamedSet
<1>4. \A d \in Streams : /\ d \in OverSet <=> st[d].pc = "over"
                         /\ d \in SaidSet <=> st[d].said >= 0
                         /\ d \in NamedSet <=> st[d].uuid = "known"
  BY DEF OverSet, SaidSet, NamedSet
<1>5. /\ OverSet \subseteq Streams /\ SaidSet \subseteq Streams /\ NamedSet \subseteq Streams
      /\ OverSet' \subseteq Streams /\ SaidSet' \subseteq Streams /\ NamedSet' \subseteq Streams
  BY DEF OverSet, SaidSet, NamedSet
<1>6. (st[s].pc = "over" => r.pc = "over") => OverSet \subseteq OverSet'
  BY <1>1, <1>2, <1>3, <1>4, <1>5
<1>7. r.said = st[s].said => SaidSet' = SaidSet
  BY <1>1, <1>2, <1>3, <1>4, <1>5
<1>8. r.uuid = st[s].uuid => NamedSet' = NamedSet
  BY <1>1, <1>2, <1>3, <1>4, <1>5
<1>9. QED
  BY <1>6, <1>7, <1>8

\* The sizes of sets of answers.
LEMMA Sizes ==
  ASSUME NEW A \in SUBSET Streams
  PROVE  /\ IsFiniteSet(A) /\ Cardinality(A) \in Nat /\ Cardinality(A) <= Cardinality(Streams)
         /\ \A B \in SUBSET A : Cardinality(B) <= Cardinality(A) /\ Cardinality(B) \in Nat
         /\ \A s \in Streams \ A : Cardinality(A \cup {s}) = Cardinality(A) + 1
         /\ \A s \in Streams : Cardinality(A \cup {s}) <= Cardinality(A) + 1
<1>1. IsFiniteSet(A) /\ Cardinality(A) \in Nat /\ Cardinality(A) <= Cardinality(Streams)
  BY StreamingAssumption, FS_Subset, FS_CardinalityType
<1>2. \A B \in SUBSET A : Cardinality(B) <= Cardinality(A) /\ Cardinality(B) \in Nat
  BY <1>1, FS_Subset, FS_CardinalityType
<1>3. \A s \in Streams \ A : Cardinality(A \cup {s}) = Cardinality(A) + 1
  BY <1>1, FS_AddElement
<1>4. ASSUME NEW s \in Streams PROVE Cardinality(A \cup {s}) <= Cardinality(A) + 1
  <2>1. CASE s \in A
    <3>1. A \cup {s} = A
      BY <2>1
    <3>2. Cardinality(A) <= Cardinality(A) + 1
      BY <1>1
    <3>3. QED
      BY <3>1, <3>2
  <2>2. CASE s \notin A
    BY <1>1, <1>3, <2>2
  <2>3. QED
    BY <2>1, <2>2
<1>5. QED
  BY <1>1, <1>2, <1>3, <1>4

\* The sets the counters are compared with.
LEMMA SetTypes ==
  /\ OverSet \in SUBSET Streams /\ SaidSet \in SUBSET Streams /\ NamedSet \in SUBSET Streams
  /\ OverSet' \in SUBSET Streams /\ SaidSet' \in SUBSET Streams /\ NamedSet' \in SUBSET Streams
BY DEF OverSet, SaidSet, NamedSet

\* The counters are numbers, and only a history may be below zero.
LEMMA BooksTypes ==
  ASSUME IInv
  PROVE  /\ metrics.started \in Nat /\ metrics.completed \in Nat
         /\ bus[Started] \in Nat /\ bus[Complete] \in Nat
         /\ surplus[Started] \in Int /\ surplus[Complete] \in Int
         /\ \A p \in 1..Proxies : /\ blacklist[p] \in Nat /\ bus[Invalid(p)] \in Nat
                                  /\ surplus[Invalid(p)] \in Int
BY KindFacts DEF IInv, Types

\* The books stay balanced when the bus receives what the sets have grown by:
\* a failed dial, b completed messages, c announced ones.
LEMMA Booked ==
  ASSUME IInv, UNCHANGED <<metrics, blacklist, surplus>>, bus' \in [Kinds -> Nat],
         NEW a \in Nat, NEW b \in Nat, NEW c \in Nat,
         Cardinality(OverSet) + a <= Cardinality(OverSet'),
         Cardinality(SaidSet') = Cardinality(SaidSet) + b,
         Cardinality(NamedSet') = Cardinality(NamedSet) + c,
         \A p \in 1..Proxies : bus'[Invalid(p)] <= bus[Invalid(p)] + a,
         bus'[Complete] = bus[Complete] + b, bus'[Started] = bus[Started] + c
  PROVE  Counts'
<1>1. /\ Cardinality(OverSet) \in Nat /\ Cardinality(OverSet') \in Nat
      /\ Cardinality(SaidSet) \in Nat /\ Cardinality(NamedSet) \in Nat
  BY SetTypes, Sizes
<1>2. ASSUME NEW p \in 1..Proxies
      PROVE  blacklist'[p] + (bus'[Invalid(p)] - surplus'[Invalid(p)]) <= Cardinality(OverSet')
  <2>1. /\ blacklist[p] + (bus[Invalid(p)] - surplus[Invalid(p)]) <= Cardinality(OverSet)
        /\ blacklist[p] \in Nat /\ bus[Invalid(p)] \in Nat /\ surplus[Invalid(p)] \in Int
    BY BooksTypes DEF IInv, Counts, Due
  <2>2. bus'[Invalid(p)] \in Nat /\ bus'[Invalid(p)] <= bus[Invalid(p)] + a
    BY KindFacts
  <2>3. QED
    BY <1>1, <2>1, <2>2
<1>3. metrics'.completed + (bus'[Complete] - surplus'[Complete]) = Cardinality(SaidSet')
  BY <1>1, BooksTypes DEF IInv, Counts, Due
<1>4. metrics'.started + (bus'[Started] - surplus'[Started]) = Cardinality(NamedSet')
  BY <1>1, BooksTypes DEF IInv, Counts, Due
<1>5. QED
  BY <1>2, <1>3, <1>4 DEF Counts, Due, Started, Complete, Invalid

\* A step of an answer is no slip of the bus.
LEMMA SameSlips ==
  ASSUME IInv, UNCHANGED <<surplus, slips>>
  PROVE  surplus' \in [Kinds -> Int] /\ slips' \in Nat /\ Slipped'
BY DEF IInv, Types, Slipped, Kinds, Started, Complete, Invalid

\* A step that publishes nothing.
LEMMA SilentStep ==
  ASSUME IInv, NEW s \in Streams, NEW r \in StRecords, NEW x \in SentRecords, NEW f \in Seq(Frames),
         st' = [st EXCEPT ![s] = r], sent' = [sent EXCEPT ![s] = x],
         frames' = [frames EXCEPT ![s] = f], Reading(r, x), Spoken(r, f),
         Silently(st[s], r), UNCHANGED <<bus, metrics, blacklist, surplus, slips>>,
         cursor' \in 0..(Proxies - 1), unserved' \in [1..Proxies -> Nat], Rotation'
  PROVE  IInv'
<1>1. /\ st' \in [Streams -> StRecords] /\ sent' \in [Streams -> SentRecords]
      /\ frames' \in [Streams -> Seq(Frames)] /\ StreamInv'
      /\ \A d \in Streams : /\ st'[d] = IF d = s THEN r ELSE st[d]
                            /\ sent'[d] = IF d = s THEN x ELSE sent[d]
  BY Moved
<1>2. OverSet \subseteq OverSet' /\ SaidSet' = SaidSet /\ NamedSet' = NamedSet
  BY <1>1, SetsMove DEF Silently
<1>3. /\ Cardinality(OverSet) <= Cardinality(OverSet') /\ Cardinality(OverSet) \in Nat
      /\ Cardinality(SaidSet) \in Nat /\ Cardinality(NamedSet) \in Nat
  BY <1>2, SetTypes, Sizes
<1>4. Counts'
  <2>1. bus' \in [Kinds -> Nat] /\ bus[Started] \in Nat /\ bus[Complete] \in Nat
    BY BooksTypes DEF IInv, Types
  <2>2. /\ Cardinality(OverSet) + 0 <= Cardinality(OverSet')
        /\ Cardinality(SaidSet') = Cardinality(SaidSet) + 0
        /\ Cardinality(NamedSet') = Cardinality(NamedSet) + 0
        /\ bus'[Complete] = bus[Complete] + 0 /\ bus'[Started] = bus[Started] + 0
    BY <1>2, <1>3, <2>1
  <2>3. \A p \in 1..Proxies : bus'[Invalid(p)] <= bus[Invalid(p)] + 0
    BY BooksTypes
  <2>4. QED
    BY <2>1, <2>2, <2>3, Booked
<1>5. Types'
  BY <1>1, SameSlips DEF IInv, Types, Kinds, Started, Complete, Invalid
<1>6. QED
  BY <1>1, <1>4, <1>5, SameSlips DEF IInv

---------------------------------------------------------------------------
\* The initial states satisfy the invariant.
LEMMA InitIInv == Init => IInv
<1> SUFFICES ASSUME Init PROVE IInv
  OBVIOUS
<1> DEFINE r == [pc |-> "idle", mode |-> "none", proxy |-> 0, event |-> "none",
                 data |-> "none", text |-> 0, got |-> 0, said |-> -1, uuid |-> "none"]
           x == [phase |-> "start", pieces |-> 0]
<1>0. Proxies \in Nat \ {0} /\ MaxPieces \in Nat
  BY StreamingAssumption
<1>1. r \in StRecords /\ x \in SentRecords
  <2>1. 0 \in 0..MaxPieces /\ 0 \in 0..Proxies /\ -1 \in -1..MaxPieces
    BY <1>0
  <2>2. r.pc \in PCs /\ r.mode \in Modes \cup {"none"} /\ r.event \in Events
    BY DEF PCs, Events
  <2>3. QED
    BY <2>1, <2>2 DEF StRecords, SentRecords
<1>2. Reading(r, x) /\ Spoken(r, <<>>)
  BY DEF Reading, Spoken, OpenFrames
<1>3. st = [s \in Streams |-> r] /\ sent = [s \in Streams |-> x] /\ frames = [s \in Streams |-> <<>>]
  BY DEF Init
<1>4. r.pc = "idle" /\ r.said = -1 /\ ~(-1 >= 0) /\ r.uuid = "none"
  OBVIOUS
<1> HIDE DEF r, x
<1>5. Types
  <2>1. cursor \in 0..(Proxies - 1) /\ unserved \in [1..Proxies -> Nat]
    BY <1>0 DEF Init
  <2>2. bus \in [Kinds -> Nat] /\ metrics \in [started : Nat, completed : Nat]
    BY DEF Init
  <2>3. blacklist \in [1..Proxies -> Nat] /\ surplus \in [Kinds -> Int] /\ slips \in Nat
    BY DEF Init
  <2>4. <<>> \in Seq(Frames)
    OBVIOUS
  <2>5. QED
    BY <1>1, <1>3, <2>1, <2>2, <2>3, <2>4 DEF Types
<1>6. StreamInv
  BY <1>2, <1>3 DEF StreamInv
<1>7. Rotation
  <2>1. ASSUME NEW p \in 1..Proxies PROVE unserved[p] + Distance(cursor, p) <= Proxies - 1
    <3>1. unserved[p] = 0 /\ cursor = 0 /\ 0 \in 0..(Proxies - 1)
      BY <1>0 DEF Init
    <3>2. Distance(0, p) \in 0..(Proxies - 1)
      BY <3>1, Reached
    <3>3. QED
      BY <1>0, <3>1, <3>2
  <2>2. QED
    BY <2>1 DEF Rotation
<1>8. Counts
  <2>1. OverSet = {} /\ SaidSet = {} /\ NamedSet = {}
    BY <1>3, <1>4 DEF OverSet, SaidSet, NamedSet
  <2>2. Cardinality({}) = 0
    BY FS_EmptySet
  <2>3. /\ metrics.started = 0 /\ metrics.completed = 0 /\ bus[Started] = 0 /\ bus[Complete] = 0
        /\ surplus[Started] = 0 /\ surplus[Complete] = 0
        /\ \A p \in 1..Proxies : blacklist[p] = 0 /\ bus[Invalid(p)] = 0 /\ surplus[Invalid(p)] = 0
    BY KindFacts DEF Init
  <2>4. QED
    BY <2>1, <2>2, <2>3 DEF Counts, Due
<1>9. Slipped
  BY StreamingAssumption DEF Slipped, Init
<1>10. QED
  BY <1>5, <1>6, <1>7, <1>8, <1>9 DEF IInv

\* Every wish leads to one of the readers.
LEMMA ModeTypes ==
  ASSUME NEW s \in Streams, NEW q \in Asked[s]
  PROVE  ModeOf(q) \in Modes
<1>1. q \in Wishes
  BY StreamingAssumption
<1>2. q.route \in {"chat", "invoke"} /\ q.stream \in BOOLEAN
  BY <1>1 DEF Wishes
<1>3. QED
  BY <1>2 DEF ModeOf, Modes

\* What stays when a step leaves the proxy list alone.
LEMMA SameProxies ==
  ASSUME IInv, UNCHANGED <<cursor, unserved>>
  PROVE  cursor' \in 0..(Proxies - 1) /\ unserved' \in [1..Proxies -> Nat] /\ Rotation'
BY DEF IInv, Types, Rotation, Distance

\* A request begins.
LEMMA AskStep ==
  ASSUME IInv, NEW s \in Streams, NEW q \in Asked[s], Ask(s, q)
  PROVE  IInv'
<1> DEFINE mode == ModeOf(q)
           R(pc) == [st[s] EXCEPT !.pc = pc, !.mode = mode]
<1>1. /\ st[s].pc = "idle" /\ UNCHANGED <<sent, cursor, unserved, bus, metrics, blacklist, surplus, slips>>
      /\ \/ /\ st' = [st EXCEPT ![s].pc = "over", ![s].mode = mode]
            /\ frames' = [frames EXCEPT ![s] = @ \o Refusal(mode)]
         \/ /\ st' = [st EXCEPT ![s].pc = "connect", ![s].mode = mode]
            /\ frames' = [frames EXCEPT ![s] = @ \o IF mode = "live" THEN <<Role>> ELSE <<>>]
  BY DEF Ask, Put, proxyVars, handlerVars
<1>2. mode \in Modes
  BY ModeTypes
<1> HIDE DEF mode
<1>3. /\ st[s] \in StRecords /\ sent[s] \in SentRecords /\ frames[s] = <<>>
      /\ st[s].got = 0 /\ st[s].event = "none" /\ sent[s].phase = "start"
      /\ st[s].said \in -1..MaxPieces /\ ~(st[s].said >= 0)
  BY <1>1, StreamTypes DEF Reading, Spoken, OpenFrames, StRecords
<1>4. ASSUME NEW pc \in {"over", "connect"}
      PROVE  /\ R(pc) \in StRecords /\ R(pc).pc = pc /\ R(pc).mode = mode /\ R(pc).got = 0
             /\ R(pc).said = st[s].said /\ R(pc).uuid = st[s].uuid /\ R(pc).event = "none" /\ R(pc).text = st[s].text
  <2>1. pc \in PCs
    BY <1>4 DEF PCs
  <2>2. QED
    BY <1>2, <1>3, <2>1 DEF StRecords
<1>5. sent' = [sent EXCEPT ![s] = sent[s]]
  BY <1>1, StreamTypes
<1>6. cursor' \in 0..(Proxies - 1) /\ unserved' \in [1..Proxies -> Nat] /\ Rotation'
  BY <1>1, SameProxies
<1>7. ASSUME NEW pc \in {"over", "connect"}
      PROVE  Reading(R(pc), sent[s]) /\ Silently(st[s], R(pc))
  <2>1. Reading(st[s], sent[s])
    BY StreamTypes
  <2> HIDE DEF R
  <2>2. Reading(R(pc), sent[s])
    BY <1>1, <1>2, <1>3, <1>4, <1>7, <2>1 DEF Reading, Modes
  <2>3. Silently(st[s], R(pc))
    BY <1>1, <1>3, <1>4, <1>7 DEF Silently
  <2>4. QED
    BY <2>2, <2>3
<1>8. CASE /\ st' = [st EXCEPT ![s].pc = "over", ![s].mode = mode]
           /\ frames' = [frames EXCEPT ![s] = @ \o Refusal(mode)]
  <2> DEFINE f == <<>> \o Refusal(mode)
  <2>1. f \in Seq(Frames) /\ TextOK(mode, 0, f) /\ (mode \notin Plain => EndsOK(mode, f))
    <3>1. <<>> \in Seq(Frames) /\ 0 \in Nat
      OBVIOUS
    <3>2. QED
      BY <3>1, RefusalEnds
  <2>2. frames' = [frames EXCEPT ![s] = f]
    BY <1>3, <1>8
  <2> HIDE DEF f
  <2>3. st' = [st EXCEPT ![s] = R("over")]
    BY <1>8, StreamTypes
  <2>4. Spoken(R("over"), f)
    <3> HIDE DEF R
    <3>1. QED
      BY <1>4, <2>1 DEF Spoken
  <2> HIDE DEF R
  <2>5. QED
    BY <1>1, <1>3, <1>4, <1>5, <1>6, <1>7, <2>1, <2>2, <2>3, <2>4, SilentStep
<1>9. CASE /\ st' = [st EXCEPT ![s].pc = "connect", ![s].mode = mode]
           /\ frames' = [frames EXCEPT ![s] = @ \o IF mode = "live" THEN <<Role>> ELSE <<>>]
  <2> DEFINE f == IF mode = "live" THEN <<Role>> ELSE <<>>
  <2>1. f \in Seq(Frames) /\ OpenFrames(mode, 0, f)
    <3>1. CASE mode = "live"
      <4>1. f \in Seq(Frames) /\ Len(f) = 1 /\ f[1] = Role
        BY <3>1, FrameTypes
      <4> HIDE DEF f
      <4>2. QED
        BY <3>1, <4>1 DEF OpenFrames
    <3>2. CASE mode # "live"
      BY <3>2 DEF OpenFrames
    <3>3. QED
      BY <3>1, <3>2
  <2>2. <<>> \o f = f
    BY <2>1
  <2>3. frames' = [frames EXCEPT ![s] = f]
    BY <1>3, <1>9, <2>2
  <2> HIDE DEF f
  <2>4. st' = [st EXCEPT ![s] = R("connect")]
    BY <1>9, StreamTypes
  <2>5. Spoken(R("connect"), f)
    <3> HIDE DEF R
    <3>1. QED
      BY <1>4, <2>1 DEF Spoken
  <2> HIDE DEF R
  <2>6. QED
    BY <1>1, <1>3, <1>4, <1>5, <1>6, <1>7, <2>1, <2>3, <2>4, <2>5, SilentStep
<1>10. QED
  BY <1>1, <1>8, <1>9

\* The proxy list hands out the next proxy.
LEMMA ConnectStep ==
  ASSUME IInv, NEW s \in Streams, Connect(s)
  PROVE  IInv'
<1>1. /\ st[s].pc = "connect" /\ TakeProxy(s)
      /\ UNCHANGED <<sent, frames, bus, metrics, blacklist, surplus, slips>>
  BY DEF Connect, handlerVars
<1>2. /\ cursor' \in 0..(Proxies - 1) /\ unserved' \in [1..Proxies -> Nat] /\ Rotation'
      /\ \E p \in 1..Proxies : st' = [st EXCEPT ![s].pc = "dial", ![s].proxy = p]
  BY <1>1, Rotate DEF IInv
<1>3. PICK p \in 1..Proxies : st' = [st EXCEPT ![s].pc = "dial", ![s].proxy = p]
  BY <1>2
<1> DEFINE r == [st[s] EXCEPT !.pc = "dial", !.proxy = p]
<1>4. /\ st[s] \in StRecords /\ sent[s] \in SentRecords /\ frames[s] \in Seq(Frames)
      /\ Reading(st[s], sent[s]) /\ Spoken(st[s], frames[s])
  BY StreamTypes
<1>5. /\ r \in StRecords /\ r.pc = "dial" /\ r.proxy = p /\ r.mode = st[s].mode /\ r.event = st[s].event
      /\ r.text = st[s].text /\ r.got = st[s].got /\ r.said = st[s].said /\ r.uuid = st[s].uuid
  <2>1. "dial" \in PCs /\ p \in 0..Proxies
    BY StreamingAssumption DEF PCs
  <2>2. QED
    BY <1>4, <2>1 DEF StRecords
<1>6. /\ st' = [st EXCEPT ![s] = r] /\ sent' = [sent EXCEPT ![s] = sent[s]]
      /\ frames' = [frames EXCEPT ![s] = frames[s]]
  BY <1>1, <1>3, StreamTypes
<1> HIDE DEF r
<1>7. Reading(r, sent[s])
  BY <1>1, <1>4, <1>5 DEF Reading
<1>8. Spoken(r, frames[s])
  BY <1>1, <1>4, <1>5 DEF Spoken
<1>9. Silently(st[s], r)
  BY <1>1, <1>5 DEF Silently
<1>10. QED
  BY <1>1, <1>2, <1>4, <1>5, <1>6, <1>7, <1>8, <1>9, SilentStep

\* The connection is made.
LEMMA DialledStep ==
  ASSUME IInv, NEW s \in Streams, Dialled(s)
  PROVE  IInv'
<1>1. /\ st[s].pc = "dial" /\ st' = [st EXCEPT ![s].pc = "read", ![s].proxy = 0]
      /\ UNCHANGED <<sent, frames, cursor, unserved, bus, metrics, blacklist, surplus, slips>>
  BY DEF Dialled, handlerVars
<1> DEFINE r == [st[s] EXCEPT !.pc = "read", !.proxy = 0]
<1>2. cursor' \in 0..(Proxies - 1) /\ unserved' \in [1..Proxies -> Nat] /\ Rotation'
  BY <1>1, SameProxies
<1>4. /\ st[s] \in StRecords /\ sent[s] \in SentRecords /\ frames[s] \in Seq(Frames)
      /\ Reading(st[s], sent[s]) /\ Spoken(st[s], frames[s])
  BY StreamTypes
<1>5. /\ r \in StRecords /\ r.pc = "read" /\ r.mode = st[s].mode /\ r.event = st[s].event
      /\ r.text = st[s].text /\ r.got = st[s].got /\ r.said = st[s].said /\ r.uuid = st[s].uuid
  <2>1. "read" \in PCs /\ 0 \in 0..Proxies
    BY StreamingAssumption DEF PCs
  <2>2. QED
    BY <1>4, <2>1 DEF StRecords
<1>6. /\ st' = [st EXCEPT ![s] = r] /\ sent' = [sent EXCEPT ![s] = sent[s]]
      /\ frames' = [frames EXCEPT ![s] = frames[s]]
  BY <1>1, StreamTypes
<1> HIDE DEF r
<1>7. Reading(r, sent[s])
  BY <1>1, <1>4, <1>5 DEF Reading
<1>8. Spoken(r, frames[s])
  BY <1>1, <1>4, <1>5 DEF Spoken
<1>9. Silently(st[s], r)
  BY <1>1, <1>4, <1>5 DEF Silently
<1>10. QED
  BY <1>1, <1>2, <1>4, <1>5, <1>6, <1>7, <1>8, <1>9, SilentStep

\* An exception ends the answer with an error; the bus learns nothing of it.
Raised(r) == [r EXCEPT !.pc = "over", !.proxy = 0, !.event = "none", !.data = "none"]

\* What a stream looks like after an error.
LEMMA RaiseFacts ==
  ASSUME IInv, NEW s \in Streams, Raise(s), st[s].pc \in {"dial", "read"}, sent' = sent
  PROVE  /\ Raised(st[s]) \in StRecords /\ frames[s] \o Refusal(st[s].mode) \in Seq(Frames)
         /\ st' = [st EXCEPT ![s] = Raised(st[s])] /\ sent' = [sent EXCEPT ![s] = sent[s]]
         /\ frames' = [frames EXCEPT ![s] = frames[s] \o Refusal(st[s].mode)]
         /\ Reading(Raised(st[s]), sent[s])
         /\ Spoken(Raised(st[s]), frames[s] \o Refusal(st[s].mode))
         /\ Silently(st[s], Raised(st[s]))
         /\ Raised(st[s]).pc = "over"
<1>1. /\ st[s] \in StRecords /\ sent[s] \in SentRecords /\ frames[s] \in Seq(Frames)
      /\ Reading(st[s], sent[s]) /\ Spoken(st[s], frames[s])
  BY StreamTypes
<1>2. /\ st' = [st EXCEPT ![s] = Raised(st[s])] /\ sent' = [sent EXCEPT ![s] = sent[s]]
      /\ frames' = [frames EXCEPT ![s] = frames[s] \o Refusal(st[s].mode)]
  BY StreamTypes DEF Raise, Put, Raised
<1> DEFINE r == Raised(st[s])
           f == frames[s] \o Refusal(st[s].mode)
<1>3. /\ r \in StRecords /\ r.pc = "over" /\ r.event = "none" /\ r.mode = st[s].mode
      /\ r.text = st[s].text /\ r.got = st[s].got /\ r.said = st[s].said /\ r.uuid = st[s].uuid
  <2>1. "over" \in PCs /\ "none" \in Events /\ 0 \in 0..Proxies
    BY StreamingAssumption DEF PCs, Events
  <2>2. QED
    BY <1>1, <2>1 DEF StRecords, Raised
<1>4. f \in Seq(Frames) /\ TextOK(r.mode, r.got, f) /\ (r.mode \notin Plain => EndsOK(r.mode, f))
  <2>1. OpenFrames(st[s].mode, st[s].got, frames[s])
    BY <1>1 DEF Spoken
  <2>2. st[s].got \in Nat
    BY <1>1, StreamingAssumption DEF StRecords
  <2>3. QED
    BY <1>1, <1>3, <2>1, <2>2, RefusalEnds
<1> HIDE DEF r, f
<1>5. Reading(r, sent[s])
  BY <1>1, <1>3 DEF Reading
<1>6. Spoken(r, f)
  BY <1>3, <1>4 DEF Spoken
<1>7. Silently(st[s], r)
  BY <1>1, <1>3 DEF Silently
<1>8. QED
  BY <1>2, <1>3, <1>4, <1>5, <1>6, <1>7 DEF r, f

\* An error ends a stream.
LEMMA RaiseStep ==
  ASSUME IInv, NEW s \in Streams, Raise(s), st[s].pc \in {"dial", "read"},
         UNCHANGED <<sent, cursor, unserved, bus, metrics, blacklist, surplus, slips>>
  PROVE  IInv'
<1>1. cursor' \in 0..(Proxies - 1) /\ unserved' \in [1..Proxies -> Nat] /\ Rotation'
  BY SameProxies
<1>2. sent[s] \in SentRecords
  BY StreamTypes
<1>3. QED
  BY <1>1, <1>2, RaiseFacts, SilentStep

\* The connection is refused.
LEMMA DeniedStep ==
  ASSUME IInv, NEW s \in Streams, Denied(s)
  PROVE  IInv'
BY RaiseStep DEF Denied, handlerVars

\* The connection breaks off or times out.
LEMMA CutStep ==
  ASSUME IInv, NEW s \in Streams, Cut(s)
  PROVE  IInv'
BY RaiseStep DEF Cut, handlerVars, proxyVars

\* The lines of an SSE event are read.
LEMMA EventLinesStep ==
  ASSUME IInv, NEW s \in Streams, NEW e \in Sendable(s), NEW d, EventLines(s, e, d)
  PROVE  IInv'
<1> DEFINE r == [st[s] EXCEPT !.event = e, !.data = d]
           x == [phase |-> After(e, sent[s].phase),
                 pieces |-> IF e = "text" THEN sent[s].pieces + 1 ELSE sent[s].pieces]
<1>1. /\ st[s].pc = "read" /\ st[s].event = "none" /\ d \in {"none", "ok", "broken", "odd"}
      /\ sent' = [sent EXCEPT ![s] = [phase |-> After(e, @.phase),
                                      pieces |-> IF e = "text" THEN @.pieces + 1 ELSE @.pieces]]
      /\ st' = [st EXCEPT ![s].event = e, ![s].data = d]
      /\ UNCHANGED <<frames, cursor, unserved, bus, metrics, blacklist, surplus, slips>>
  BY DEF EventLines, proxyVars, handlerVars
<1>2. cursor' \in 0..(Proxies - 1) /\ unserved' \in [1..Proxies -> Nat] /\ Rotation'
  BY <1>1, SameProxies
<1>3. /\ st[s] \in StRecords /\ sent[s] \in SentRecords /\ frames[s] \in Seq(Frames)
      /\ Reading(st[s], sent[s]) /\ Spoken(st[s], frames[s])
  BY StreamTypes
<1>4. /\ sent[s].phase \in {"start", "body"} /\ sent[s].pieces \in 0..MaxPieces
      /\ sent[s].phase = "start" <=> e = "start"
      /\ e \in {"start", "text", "other", "bare", "stop"}
      /\ e = "text" => sent[s].pieces < MaxPieces
  <2>1. Pieces[s] \in 0..MaxPieces /\ MaxPieces \in Nat
    BY StreamingAssumption
  <2>2. QED
    BY <1>3, <2>1 DEF Sendable, SentRecords
<1>5. /\ x \in SentRecords /\ x.phase = PhaseOf(e)
      /\ x.pieces = IF e = "text" THEN sent[s].pieces + 1 ELSE sent[s].pieces
  <2>1. After(e, sent[s].phase) = PhaseOf(e) /\ PhaseOf(e) \in {"body", "stop"}
    BY <1>4 DEF After, PhaseOf
  <2>2. (IF e = "text" THEN sent[s].pieces + 1 ELSE sent[s].pieces) \in 0..MaxPieces
    BY <1>4, StreamingAssumption
  <2>3. QED
    BY <2>1, <2>2 DEF SentRecords
<1>6. /\ r \in StRecords /\ r.pc = "read" /\ r.event = e /\ r.mode = st[s].mode /\ r.proxy = st[s].proxy
      /\ r.text = st[s].text /\ r.got = st[s].got /\ r.said = st[s].said /\ r.uuid = st[s].uuid
  <2>1. e \in Events
    BY <1>4 DEF Events
  <2>2. QED
    BY <1>1, <1>3, <2>1 DEF StRecords
<1>7. /\ st' = [st EXCEPT ![s] = r] /\ sent' = [sent EXCEPT ![s] = x]
      /\ frames' = [frames EXCEPT ![s] = frames[s]]
  BY <1>1, StreamTypes
<1> HIDE DEF r, x
<1>8. ~(st[s].said >= 0)
  BY <1>3, <1>4 DEF Reading
<1>9. Reading(r, x)
  <2>1. st[s].text = st[s].got /\ sent[s].pieces = st[s].got
    BY <1>1, <1>3 DEF Reading
  <2>2. st[s].got \in Int
    BY <1>3 DEF StRecords
  <2>3. /\ e # "text" => x.pieces = r.got
        /\ e = "text" => x.pieces = r.got + 1
        /\ r.text = r.got
    BY <1>5, <1>6, <2>1, <2>2
  <2>4. r.pc = "idle" <=> r.mode = "none"
    BY <1>1, <1>3, <1>6 DEF Reading
  <2>5. r.uuid = "known" => x.phase # "start" /\ e # "start"
    <3>1. st[s].uuid = "known" => sent[s].phase # "start"
      BY <1>3 DEF Reading
    <3>2. x.phase # "start"
      BY <1>5 DEF PhaseOf
    <3>3. QED
      BY <1>4, <1>6, <3>1, <3>2
  <2>6. e # "none"
    BY <1>4
  <2>7. QED
    BY <1>5, <1>6, <1>8, <2>3, <2>4, <2>5, <2>6 DEF Reading
<1>10. Spoken(r, frames[s])
  BY <1>1, <1>3, <1>6 DEF Spoken
<1>11. Silently(st[s], r)
  BY <1>1, <1>4, <1>5, <1>6, <1>8 DEF Silently
<1>12. QED
  BY <1>1, <1>2, <1>3, <1>5, <1>6, <1>7, <1>9, <1>10, <1>11, SilentStep

\* A blank line ends an SSE event.
LEMMA BlankLineStep ==
  ASSUME IInv, NEW s \in Streams, BlankLine(s)
  PROVE  IInv'
<1> DEFINE r == [st[s] EXCEPT !.event = "none"]
<1>1. /\ st[s].pc = "read" /\ st[s].event = "bare" /\ st' = [st EXCEPT ![s].event = "none"]
      /\ UNCHANGED <<sent, frames, cursor, unserved, bus, metrics, blacklist, surplus, slips>>
  BY DEF BlankLine, proxyVars, handlerVars
<1>2. cursor' \in 0..(Proxies - 1) /\ unserved' \in [1..Proxies -> Nat] /\ Rotation'
  BY <1>1, SameProxies
<1>3. /\ st[s] \in StRecords /\ sent[s] \in SentRecords /\ frames[s] \in Seq(Frames)
      /\ Reading(st[s], sent[s]) /\ Spoken(st[s], frames[s])
  BY StreamTypes
<1>4. /\ r \in StRecords /\ r.pc = "read" /\ r.event = "none" /\ r.mode = st[s].mode
      /\ r.text = st[s].text /\ r.got = st[s].got /\ r.said = st[s].said /\ r.uuid = st[s].uuid
  <2>1. "none" \in Events
    BY DEF Events
  <2>2. QED
    BY <1>1, <1>3, <2>1 DEF StRecords
<1>5. /\ st' = [st EXCEPT ![s] = r] /\ sent' = [sent EXCEPT ![s] = sent[s]]
      /\ frames' = [frames EXCEPT ![s] = frames[s]]
  BY <1>1, StreamTypes
<1> HIDE DEF r
<1>6. Reading(r, sent[s])
  <2>1. sent[s].phase = "body"
    BY <1>1, <1>3 DEF Reading, PhaseOf
  <2>2. QED
    BY <1>1, <1>3, <1>4, <2>1 DEF Reading
<1>7. Spoken(r, frames[s])
  BY <1>1, <1>3, <1>4 DEF Spoken
<1>8. Silently(st[s], r)
  BY <1>1, <1>3, <1>4 DEF Silently
<1>9. QED
  BY <1>1, <1>2, <1>3, <1>4, <1>5, <1>6, <1>7, <1>8, SilentStep

\* The coroutines stop at pc, and the unfinished event is forgotten.
Stopped(r, pc) == [r EXCEPT !.pc = pc, !.event = "none", !.data = "none"]

\* What a stream looks like when its reader stops.
LEMMA StoppedFacts ==
  ASSUME IInv, NEW s \in Streams, NEW pc \in {"over", "gone"}, st[s].pc \in {"read", "yield"}
  PROVE  /\ Stopped(st[s], pc) \in StRecords /\ Stopped(st[s], pc).pc = pc
         /\ Stopped(st[s], pc).mode = st[s].mode /\ Stopped(st[s], pc).got = st[s].got
         /\ Reading(Stopped(st[s], pc), sent[s])
         /\ Silently(st[s], Stopped(st[s], pc))
<1> DEFINE r == Stopped(st[s], pc)
<1>1. st[s] \in StRecords /\ sent[s] \in SentRecords /\ Reading(st[s], sent[s])
  BY StreamTypes
<1>2. /\ r \in StRecords /\ r.pc = pc /\ r.event = "none" /\ r.mode = st[s].mode
      /\ r.text = st[s].text /\ r.got = st[s].got /\ r.said = st[s].said /\ r.uuid = st[s].uuid
  <2>1. pc \in PCs /\ "none" \in Events
    BY DEF PCs, Events
  <2>2. QED
    BY <1>1, <2>1 DEF StRecords, Stopped
<1> HIDE DEF r
<1>3. Reading(r, sent[s])
  BY <1>1, <1>2 DEF Reading
<1>4. Silently(st[s], r)
  BY <1>1, <1>2 DEF Silently
<1>5. QED
  BY <1>2, <1>3, <1>4 DEF r

\* The server closes the connection.
LEMMA EofStep ==
  ASSUME IInv, NEW s \in Streams, Eof(s)
  PROVE  IInv'
<1> DEFINE r == Stopped(st[s], "over")
           f == frames[s] \o Answer(st[s].mode, st[s].got)
<1>1. /\ st[s].pc = "read"
      /\ st' = [st EXCEPT ![s].pc = "over", ![s].event = "none", ![s].data = "none"]
      /\ frames' = [frames EXCEPT ![s] = @ \o Answer(st[s].mode, st[s].got)]
      /\ UNCHANGED <<sent, cursor, unserved, bus, metrics, blacklist, surplus, slips>>
  BY DEF Eof, Put, proxyVars, handlerVars
<1>2. cursor' \in 0..(Proxies - 1) /\ unserved' \in [1..Proxies -> Nat] /\ Rotation'
  BY <1>1, SameProxies
<1>3. /\ st[s] \in StRecords /\ sent[s] \in SentRecords /\ frames[s] \in Seq(Frames)
      /\ Reading(st[s], sent[s]) /\ Spoken(st[s], frames[s])
  BY StreamTypes
<1>4. /\ r \in StRecords /\ r.pc = "over" /\ r.mode = st[s].mode /\ r.got = st[s].got
      /\ Reading(r, sent[s]) /\ Silently(st[s], r)
  BY <1>1, StoppedFacts
<1>5. st[s].mode \in Modes /\ st[s].got \in Nat
  <2>1. st[s].mode \in Modes \cup {"none"} /\ st[s].got \in Nat
    BY <1>3, StreamingAssumption DEF StRecords
  <2>2. st[s].mode # "none"
    BY <1>1, <1>3 DEF Reading
  <2>3. QED
    BY <2>1, <2>2
<1>6. f \in Seq(Frames) /\ TextOK(r.mode, r.got, f) /\ (r.mode \notin Plain => EndsOK(r.mode, f))
  <2>1. OpenFrames(st[s].mode, st[s].got, frames[s])
    BY <1>1, <1>3 DEF Spoken
  <2>2. QED
    BY <1>3, <1>4, <1>5, <2>1, AnswerEnds
<1>7. /\ st' = [st EXCEPT ![s] = r] /\ sent' = [sent EXCEPT ![s] = sent[s]]
      /\ frames' = [frames EXCEPT ![s] = f]
  BY <1>1, StreamTypes DEF Stopped
<1> HIDE DEF r, f
<1>8. Spoken(r, f)
  BY <1>4, <1>6 DEF Spoken
<1>9. QED
  BY <1>1, <1>2, <1>3, <1>4, <1>6, <1>7, <1>8, SilentStep

\* The reader goes away at a yield.
LEMMA AbandonStep ==
  ASSUME IInv, NEW s \in Streams, Abandon(s)
  PROVE  IInv'
<1> DEFINE r == Stopped(st[s], "gone")
<1>1. /\ st[s].pc \in {"read", "yield"}
      /\ st' = [st EXCEPT ![s].pc = "gone", ![s].event = "none", ![s].data = "none"]
      /\ UNCHANGED <<sent, frames, cursor, unserved, bus, metrics, blacklist, surplus, slips>>
  BY DEF Abandon, proxyVars, handlerVars
<1>2. cursor' \in 0..(Proxies - 1) /\ unserved' \in [1..Proxies -> Nat] /\ Rotation'
  BY <1>1, SameProxies
<1>3. sent[s] \in SentRecords /\ frames[s] \in Seq(Frames) /\ Spoken(st[s], frames[s])
  BY StreamTypes
<1>4. /\ r \in StRecords /\ r.pc = "gone" /\ r.mode = st[s].mode /\ r.got = st[s].got
      /\ Reading(r, sent[s]) /\ Silently(st[s], r)
  BY <1>1, StoppedFacts
<1>5. /\ st' = [st EXCEPT ![s] = r] /\ sent' = [sent EXCEPT ![s] = sent[s]]
      /\ frames' = [frames EXCEPT ![s] = frames[s]]
  BY <1>1, StreamTypes DEF Stopped
<1> HIDE DEF r
<1>6. Spoken(r, frames[s])
  BY <1>1, <1>3, <1>4 DEF Spoken
<1>7. QED
  BY <1>1, <1>2, <1>3, <1>4, <1>5, <1>6, SilentStep

\* A blank line hands a parsed event on; message_start is announced.
LEMMA FlushStep ==
  ASSUME IInv, NEW s \in Streams, Flush(s)
  PROVE  IInv'
<1> DEFINE r == [st[s] EXCEPT !.pc = "yield", !.data = "none",
                   !.text = IF st[s].event = "text" THEN @ + 1 ELSE @,
                   !.uuid = IF Announces(s) THEN "known" ELSE @]
<1>1. /\ st[s].pc = "read" /\ st[s].event \notin {"none", "bare"}
      /\ UNCHANGED <<sent, cursor, unserved, metrics, blacklist, surplus, slips>>
      /\ IF st[s].data = "broken" THEN Raise(s) /\ UNCHANGED bus
         ELSE /\ st' = [st EXCEPT ![s].pc = "yield", ![s].data = "none",
                       ![s].text = IF st[s].event = "text" THEN @ + 1 ELSE @,
                       ![s].uuid = IF Announces(s) THEN "known" ELSE @]
              /\ IF Announces(s) THEN bus' = [bus EXCEPT ![Started] = @ + 1]
                 ELSE UNCHANGED bus
              /\ UNCHANGED frames
  BY DEF Flush, Publish, proxyVars, handlerVars
<1>2. CASE st[s].data = "broken"
  BY <1>1, <1>2, RaiseStep
<1>3. CASE st[s].data # "broken"
  <2>1. cursor' \in 0..(Proxies - 1) /\ unserved' \in [1..Proxies -> Nat] /\ Rotation'
    BY <1>1, SameProxies
  <2>2. /\ st[s] \in StRecords /\ sent[s] \in SentRecords /\ frames[s] \in Seq(Frames)
        /\ Reading(st[s], sent[s]) /\ Spoken(st[s], frames[s])
    BY StreamTypes
  <2>3. /\ st' = [st EXCEPT ![s] = r] /\ sent' = [sent EXCEPT ![s] = sent[s]]
        /\ frames' = [frames EXCEPT ![s] = frames[s]]
    BY <1>1, <1>3, StreamTypes
  <2>4. /\ st[s].text = st[s].got /\ sent[s].phase = PhaseOf(st[s].event)
        /\ st[s].got \in 0..MaxPieces /\ st[s].text \in 0..MaxPieces
        /\ sent[s].pieces \in 0..MaxPieces
        /\ st[s].event # "text" => sent[s].pieces = st[s].got
        /\ st[s].event = "text" => sent[s].pieces = st[s].got + 1
    BY <1>1, <2>2 DEF Reading, StRecords, SentRecords
  <2>5. sent[s].phase # "start" /\ ~(st[s].said >= 0)
    BY <1>1, <2>2, <2>4 DEF PhaseOf, Reading
  <2>6. /\ r \in StRecords /\ r.pc = "yield" /\ r.event = st[s].event /\ r.mode = st[s].mode
        /\ r.text = sent[s].pieces /\ r.got = st[s].got /\ r.said = st[s].said
        /\ r.uuid = IF Announces(s) THEN "known" ELSE st[s].uuid
    <3> DEFINE u == IF Announces(s) THEN "known" ELSE st[s].uuid
    <3>1. "yield" \in PCs /\ u \in {"none", "known"}
      BY <2>2 DEF PCs, StRecords
    <3>2. (IF st[s].event = "text" THEN st[s].text + 1 ELSE st[s].text) = sent[s].pieces
      BY <2>4
    <3>3. r = [st[s] EXCEPT !.pc = "yield", !.data = "none", !.text = sent[s].pieces, !.uuid = u]
      BY <2>2, <3>2 DEF StRecords
    <3> HIDE DEF r, u
    <3>4. /\ r \in StRecords /\ r.pc = "yield" /\ r.event = st[s].event /\ r.mode = st[s].mode
          /\ r.text = sent[s].pieces /\ r.got = st[s].got /\ r.said = st[s].said /\ r.uuid = u
      BY <2>2, <2>4, <3>1, <3>3 DEF StRecords
    <3>5. QED
      BY <3>4 DEF u
  <2> HIDE DEF r
  <2>7. Reading(r, sent[s])
    <3>1. r.pc = "idle" <=> r.mode = "none"
      BY <1>1, <2>2, <2>6 DEF Reading
    <3>2. QED
      BY <1>1, <2>4, <2>5, <2>6, <3>1 DEF Reading
  <2>8. Spoken(r, frames[s])
    BY <1>1, <2>2, <2>6 DEF Spoken
  <2>9. CASE ~Announces(s)
    <3>1. Silently(st[s], r)
      BY <1>1, <2>6, <2>9 DEF Silently
    <3>2. UNCHANGED <<bus, metrics, blacklist, surplus, slips>>
      BY <1>1, <1>3, <2>9
    <3>3. QED
      BY <2>1, <2>2, <2>3, <2>6, <2>7, <2>8, <3>1, <3>2, SilentStep
  <2>10. CASE Announces(s)
    <3>1. bus' = [bus EXCEPT ![Started] = @ + 1]
      BY <1>1, <1>3, <2>10
    <3>2. /\ st' \in [Streams -> StRecords] /\ sent' \in [Streams -> SentRecords]
          /\ frames' \in [Streams -> Seq(Frames)] /\ StreamInv'
          /\ \A d \in Streams : /\ st'[d] = IF d = s THEN r ELSE st[d]
                                /\ sent'[d] = IF d = s THEN sent[s] ELSE sent[d]
      BY <2>2, <2>3, <2>6, <2>7, <2>8, Moved
    <3>3. st[s].uuid # "known" /\ r.uuid = "known"
      BY <1>1, <2>2, <2>6, <2>10 DEF Announces, Reading
    <3>4. OverSet \subseteq OverSet' /\ SaidSet' = SaidSet
      <4>1. st[s].pc # "over" /\ r.said = st[s].said
        BY <1>1, <2>6
      <4>2. \A d \in Streams : st'[d] = IF d = s THEN r ELSE st[d]
        BY <3>2
      <4>3. QED
        BY <4>1, <4>2, SetsMove
    <3>5. s \notin NamedSet /\ NamedSet' = NamedSet \cup {s}
      <4>1. \A d \in Streams : d # s => st'[d] = st[d]
        BY <3>2
      <4>2. st'[s].uuid = "known"
        BY <3>2, <3>3
      <4>3. QED
        BY <3>3, <4>1, <4>2 DEF NamedSet
    <3>6. bus \in [Kinds -> Nat] /\ bus' \in [Kinds -> Nat]
      BY <3>1, KindFacts DEF IInv, Types
    <3>7. /\ bus'[Started] = bus[Started] + 1 /\ bus'[Complete] = bus[Complete] + 0
          /\ \A p \in 1..Proxies : bus'[Invalid(p)] <= bus[Invalid(p)] + 0
      BY <3>1, <3>6, KindFacts
    <3>8. /\ Cardinality(OverSet) + 0 <= Cardinality(OverSet')
          /\ Cardinality(SaidSet') = Cardinality(SaidSet) + 0
          /\ Cardinality(NamedSet') = Cardinality(NamedSet) + 1
      BY <3>4, <3>5, SetTypes, Sizes
    <3>9. Counts'
      BY <1>1, <3>6, <3>7, <3>8, Booked
    <3>10. surplus' \in [Kinds -> Int] /\ slips' \in Nat /\ Slipped'
      BY <1>1, SameSlips
    <3>11. Types'
      BY <1>1, <2>1, <3>2, <3>6, <3>10 DEF IInv, Types, Kinds, Started, Complete, Invalid
    <3>12. QED
      BY <2>1, <3>2, <3>9, <3>10, <3>11 DEF IInv
  <2>11. QED
    BY <2>9, <2>10
<1>4. QED
  BY <1>2, <1>3

\* A failed dial is reported to the bus, once per answer.
LEMMA DialFailsStep ==
  ASSUME IInv, NEW s \in Streams, DialFails(s)
  PROVE  IInv'
<1> DEFINE p == st[s].proxy
           r == Raised(st[s])
           f == frames[s] \o Refusal(st[s].mode)
<1>1. /\ st[s].pc = "dial" /\ bus' = [bus EXCEPT ![Invalid(st[s].proxy)] = @ + 1] /\ Raise(s)
      /\ UNCHANGED <<sent, cursor, unserved, metrics, blacklist, surplus, slips>>
  BY DEF DialFails, Publish, handlerVars
<1>2. cursor' \in 0..(Proxies - 1) /\ unserved' \in [1..Proxies -> Nat] /\ Rotation'
  BY <1>1, SameProxies
<1>3. p \in 1..Proxies /\ sent[s] \in SentRecords
  BY <1>1, StreamTypes DEF Reading
<1>4. /\ r \in StRecords /\ f \in Seq(Frames)
      /\ st' = [st EXCEPT ![s] = r] /\ sent' = [sent EXCEPT ![s] = sent[s]]
      /\ frames' = [frames EXCEPT ![s] = f]
      /\ Reading(r, sent[s]) /\ Spoken(r, f) /\ Silently(st[s], r) /\ r.pc = "over"
  BY <1>1, RaiseFacts
<1> HIDE DEF r, f
<1>5. /\ st' \in [Streams -> StRecords] /\ sent' \in [Streams -> SentRecords]
      /\ frames' \in [Streams -> Seq(Frames)] /\ StreamInv'
      /\ \A d \in Streams : /\ st'[d] = IF d = s THEN r ELSE st[d]
                            /\ sent'[d] = IF d = s THEN sent[s] ELSE sent[d]
  BY <1>3, <1>4, Moved
<1>6. OverSet \subseteq OverSet' /\ SaidSet' = SaidSet /\ NamedSet' = NamedSet
  BY <1>4, <1>5, SetsMove DEF Silently
<1>7. s \notin OverSet /\ s \in OverSet'
  BY <1>1, <1>4, <1>5 DEF OverSet
<1>8. bus \in [Kinds -> Nat] /\ bus' \in [Kinds -> Nat]
  <2>1. bus \in [Kinds -> Nat] /\ Invalid(p) \in Kinds
    BY <1>3, KindFacts DEF IInv, Types
  <2>2. bus[Invalid(p)] + 1 \in Nat
    BY <2>1
  <2>3. QED
    BY <1>1, <2>1, <2>2
<1>9. /\ bus'[Started] = bus[Started] + 0 /\ bus'[Complete] = bus[Complete] + 0
      /\ \A q \in 1..Proxies : bus'[Invalid(q)] <= bus[Invalid(q)] + 1
  BY <1>1, <1>3, <1>8, KindFacts
<1>10. Counts'
  <2>1. Cardinality(OverSet) + 1 <= Cardinality(OverSet')
    <3>1. OverSet \cup {s} \in SUBSET OverSet'
      BY <1>6, <1>7
    <3>2. Cardinality(OverSet \cup {s}) <= Cardinality(OverSet') /\ Cardinality(OverSet') \in Nat
      BY <3>1, SetTypes, Sizes
    <3>3. Cardinality(OverSet \cup {s}) = Cardinality(OverSet) + 1 /\ Cardinality(OverSet) \in Nat
      BY <1>7, SetTypes, Sizes
    <3>4. QED
      BY <3>2, <3>3
  <2>2. /\ Cardinality(SaidSet') = Cardinality(SaidSet) + 0
        /\ Cardinality(NamedSet') = Cardinality(NamedSet) + 0
    BY <1>6, SetTypes, Sizes
  <2>3. QED
    BY <1>1, <1>8, <1>9, <2>1, <2>2, Booked
<1>11. surplus' \in [Kinds -> Int] /\ slips' \in Nat /\ Slipped'
  BY <1>1, SameSlips
<1>12. Types'
  BY <1>1, <1>2, <1>5, <1>8, <1>11 DEF IInv, Types, Kinds, Started, Complete, Invalid
<1>13. QED
  BY <1>2, <1>5, <1>10, <1>11, <1>12 DEF IInv

\* What the reader sends on keeps the frames of an open answer in order.
LEMMA ReactionFrames ==
  ASSUME IInv, NEW s \in Streams, st[s].pc = "yield"
  PROVE  /\ frames[s] \o Reaction(s) \in Seq(Frames)
         /\ OpenFrames(st[s].mode, IF st[s].event = "text" THEN st[s].got + 1 ELSE st[s].got,
                       frames[s] \o Reaction(s))
<1> DEFINE f == frames[s]
           mode == st[s].mode
           got == st[s].got
           n == IF st[s].event = "text" THEN got + 1 ELSE got
<1>1. f \in Seq(Frames) /\ OpenFrames(mode, got, f)
  BY StreamTypes DEF Spoken
<1>2. got \in Nat /\ got + 1 \in Nat
  BY StreamTypes, StreamingAssumption DEF StRecords
<1>3. CASE mode = "method"
  <2>1. Reaction(s) = <<Event>>
    BY <1>3 DEF Reaction
  <2> DEFINE g == f \o <<Event>>
  <2>2. g \in Seq(Frames) /\ \A i \in 1..Len(g) : g[i] = IF i <= Len(f) THEN f[i] ELSE Event
    BY <1>1, FrameTypes
  <2>3. \A i \in 1..Len(f) : f[i] = Event
    BY <1>1, <1>3 DEF OpenFrames
  <2> HIDE DEF f, g
  <2>4. \A i \in 1..Len(g) : g[i] = Event
    <3> TAKE i \in 1..Len(g)
    <3>1. CASE i <= Len(f)
      <4>1. i \in 1..Len(f)
        BY <1>1, <2>2, <3>1
      <4>2. QED
        BY <2>2, <2>3, <3>1, <4>1
    <3>2. CASE ~(i <= Len(f))
      BY <2>2, <3>2
    <3>3. QED
      BY <3>1, <3>2
  <2>5. OpenFrames(mode, n, g)
    BY <1>3, <2>4 DEF OpenFrames
  <2>6. QED
    BY <2>1, <2>2, <2>5 DEF f, g
<1>4. CASE mode = "live" /\ st[s].event = "text"
  <2>1. Reaction(s) = <<Text(got + 1)>> /\ n = got + 1
    BY <1>4 DEF Reaction, Piece
  <2>2. PICK t \in Frames : t = Text(got + 1)
    BY <1>2, FrameTypes
  <2> DEFINE g == f \o <<t>>
  <2>3. /\ g \in Seq(Frames) /\ Len(g) = Len(f) + 1 /\ Len(f) \in Nat
        /\ \A i \in 1..Len(g) : g[i] = IF i <= Len(f) THEN f[i] ELSE t
    BY <1>1
  <2>4. Len(f) = got + 1 /\ f[1] = Role /\ \A i \in 2..Len(f) : f[i] = Text(i - 1)
    BY <1>1, <1>4 DEF OpenFrames
  <2> HIDE DEF f, g, got
  <2>5. Len(g) = (got + 1) + 1 /\ g[1] = Role
    <3>1. 1 \in 1..Len(g) /\ 1 <= Len(f)
      BY <1>2, <2>3, <2>4
    <3>2. QED
      BY <2>3, <2>4, <3>1
  <2>6. \A i \in 2..Len(g) : g[i] = Text(i - 1)
    <3> TAKE i \in 2..Len(g)
    <3>1. CASE i <= Len(f)
      <4>1. i \in 1..Len(g) /\ i \in 2..Len(f)
        BY <2>3, <3>1
      <4>2. QED
        BY <2>3, <2>4, <3>1, <4>1
    <3>2. CASE ~(i <= Len(f))
      <4>1. i \in 1..Len(g) /\ i - 1 = got + 1
        BY <1>2, <2>3, <2>4, <3>2
      <4>2. QED
        BY <2>2, <2>3, <3>2, <4>1
    <3>3. QED
      BY <3>1, <3>2
  <2>7. OpenFrames(mode, got + 1, g)
    BY <1>4, <2>5, <2>6 DEF OpenFrames
  <2>8. QED
    BY <2>1, <2>2, <2>3, <2>7, <1>4 DEF f, g, got
<1>5. CASE mode # "method" /\ ~(mode = "live" /\ st[s].event = "text")
  <2>1. Reaction(s) = <<>>
    BY <1>5 DEF Reaction
  <2>2. f \o <<>> = f
    BY <1>1
  <2>3. OpenFrames(mode, n, f)
    BY <1>1, <1>5 DEF OpenFrames
  <2>4. QED
    BY <1>1, <2>1, <2>2, <2>3
<1>6. QED
  BY <1>3, <1>4, <1>5

\* The reader takes the event; after message_stop the message is announced as
\* complete, and its answer changes from under way to said.
LEMMA TakeStep ==
  ASSUME IInv, NEW s \in Streams, Take(s)
  PROVE  IInv'
<1> DEFINE n == IF st[s].event = "text" THEN st[s].got + 1 ELSE st[s].got
           m == IF st[s].event = "stop" THEN st[s].text ELSE st[s].said
           r == [st[s] EXCEPT !.pc = "read", !.event = "none", !.got = n, !.said = m]
           f == frames[s] \o Reaction(s)
<1>1. /\ st[s].pc = "yield" /\ frames' = [frames EXCEPT ![s] = @ \o Reaction(s)]
      /\ st' = [st EXCEPT ![s].pc = "read", ![s].event = "none",
                ![s].got = IF st[s].event = "text" THEN @ + 1 ELSE @,
                ![s].said = IF st[s].event = "stop" THEN st[s].text ELSE @]
      /\ IF st[s].event = "stop" THEN bus' = [bus EXCEPT ![Complete] = @ + 1] ELSE UNCHANGED bus
      /\ UNCHANGED <<sent, cursor, unserved, metrics, blacklist, surplus, slips>>
  BY DEF Take, Put, Publish, proxyVars, handlerVars
<1>2. cursor' \in 0..(Proxies - 1) /\ unserved' \in [1..Proxies -> Nat] /\ Rotation'
  BY <1>1, SameProxies
<1>3. /\ st[s] \in StRecords /\ sent[s] \in SentRecords /\ Reading(st[s], sent[s])
  BY StreamTypes
<1>4. f \in Seq(Frames) /\ OpenFrames(st[s].mode, n, f)
  BY <1>1, ReactionFrames
<1>5. /\ st' = [st EXCEPT ![s] = r] /\ sent' = [sent EXCEPT ![s] = sent[s]]
      /\ frames' = [frames EXCEPT ![s] = f]
  BY <1>1, StreamTypes
<1>6. /\ st[s].got \in 0..MaxPieces /\ st[s].text \in 0..MaxPieces /\ st[s].said \in -1..MaxPieces
      /\ sent[s].pieces \in 0..MaxPieces /\ st[s].text = sent[s].pieces
      /\ st[s].event # "none" /\ sent[s].phase = PhaseOf(st[s].event)
      /\ st[s].event # "text" => sent[s].pieces = st[s].got
      /\ st[s].event = "text" => sent[s].pieces = st[s].got + 1
      /\ ~(st[s].said >= 0)
  BY <1>1, <1>3 DEF Reading, StRecords, SentRecords
<1>7. /\ n = sent[s].pieces /\ m \in -1..MaxPieces
      /\ m >= 0 <=> st[s].event = "stop"
      /\ st[s].event = "stop" => m = sent[s].pieces
      /\ st[s].event # "stop" => m = st[s].said
  BY <1>6, StreamingAssumption
<1> HIDE DEF n, m
<1>8. /\ r \in StRecords /\ r.pc = "read" /\ r.event = "none" /\ r.mode = st[s].mode
      /\ r.text = st[s].text /\ r.got = n /\ r.said = m /\ r.uuid = st[s].uuid
  <2>1. "read" \in PCs /\ "none" \in Events /\ n \in 0..MaxPieces
    BY <1>6, <1>7 DEF PCs, Events
  <2>2. QED
    BY <1>3, <1>7, <2>1 DEF StRecords
<1> HIDE DEF r, f
<1>9. Reading(r, sent[s])
  <2>1. r.pc = "idle" <=> r.mode = "none"
    BY <1>1, <1>3, <1>8 DEF Reading
  <2>2. st[s].event = "stop" <=> sent[s].phase = "stop"
    BY <1>6 DEF PhaseOf
  <2>3. sent[s].phase # "start"
    BY <1>6 DEF PhaseOf
  <2>4. QED
    BY <1>6, <1>7, <1>8, <2>1, <2>2, <2>3 DEF Reading
<1>10. Spoken(r, f)
  BY <1>4, <1>8 DEF Spoken
<1>11. CASE st[s].event # "stop"
  <2>1. Silently(st[s], r)
    BY <1>1, <1>7, <1>8, <1>11 DEF Silently
  <2>2. UNCHANGED <<bus, metrics, blacklist, surplus, slips>>
    BY <1>1, <1>11
  <2>3. QED
    BY <1>2, <1>3, <1>4, <1>5, <1>8, <1>9, <1>10, <2>1, <2>2, SilentStep
<1>12. CASE st[s].event = "stop"
  <2>1. bus' = [bus EXCEPT ![Complete] = @ + 1]
    BY <1>1, <1>12
  <2>2. /\ st' \in [Streams -> StRecords] /\ sent' \in [Streams -> SentRecords]
        /\ frames' \in [Streams -> Seq(Frames)] /\ StreamInv'
        /\ \A d \in Streams : /\ st'[d] = IF d = s THEN r ELSE st[d]
                              /\ sent'[d] = IF d = s THEN sent[s] ELSE sent[d]
    BY <1>3, <1>4, <1>5, <1>8, <1>9, <1>10, Moved
  <2>3. OverSet \subseteq OverSet' /\ NamedSet' = NamedSet
    <3>1. st[s].pc # "over" /\ r.uuid = st[s].uuid
      BY <1>1, <1>8
    <3>2. \A d \in Streams : st'[d] = IF d = s THEN r ELSE st[d]
      BY <2>2
    <3>3. QED
      BY <3>1, <3>2, SetsMove
  <2>4. s \notin SaidSet /\ SaidSet' = SaidSet \cup {s}
    <3>1. \A d \in Streams : d # s => st'[d] = st[d]
      BY <2>2
    <3>2. st'[s].said >= 0
      BY <1>7, <1>8, <1>12, <2>2
    <3>3. QED
      BY <1>6, <3>1, <3>2 DEF SaidSet
  <2>5. bus \in [Kinds -> Nat] /\ bus' \in [Kinds -> Nat]
    BY <2>1, KindFacts DEF IInv, Types
  <2>6. /\ bus'[Started] = bus[Started] + 0 /\ bus'[Complete] = bus[Complete] + 1
        /\ \A p \in 1..Proxies : bus'[Invalid(p)] <= bus[Invalid(p)] + 0
    BY <2>1, <2>5, KindFacts
  <2>7. /\ Cardinality(OverSet) + 0 <= Cardinality(OverSet')
        /\ Cardinality(SaidSet') = Cardinality(SaidSet) + 1
        /\ Cardinality(NamedSet') = Cardinality(NamedSet) + 0
    BY <2>3, <2>4, SetTypes, Sizes
  <2>8. Counts'
    BY <1>1, <2>5, <2>6, <2>7, Booked
  <2>9. surplus' \in [Kinds -> Int] /\ slips' \in Nat /\ Slipped'
    BY <1>1, SameSlips
  <2>10. Types'
    BY <1>1, <1>2, <2>2, <2>5, <2>9 DEF IInv, Types, Kinds, Started, Complete, Invalid
  <2>11. QED
    BY <1>2, <2>2, <2>8, <2>9, <2>10 DEF IInv
<1>13. QED
  BY <1>11, <1>12

---------------------------------------------------------------------------
(* The bus handlers move one message from the bus into the books, or the   *)
(* history of the bus says why they do not.                                *)

\* A step of the bus leaves the streams as they are.
LEMMA SameStreams ==
  ASSUME IInv, UNCHANGED <<st, sent, frames, cursor, unserved>>
  PROVE  /\ st' \in [Streams -> StRecords] /\ sent' \in [Streams -> SentRecords]
         /\ frames' \in [Streams -> Seq(Frames)] /\ StreamInv'
         /\ cursor' \in 0..(Proxies - 1) /\ unserved' \in [1..Proxies -> Nat] /\ Rotation'
         /\ OverSet' = OverSet /\ SaidSet' = SaidSet /\ NamedSet' = NamedSet
<1>1. StreamInv'
  BY DEF IInv, StreamInv
<1>2. OverSet' = OverSet /\ SaidSet' = SaidSet /\ NamedSet' = NamedSet
  BY DEF OverSet, SaidSet, NamedSet
<1>3. QED
  BY <1>1, <1>2, SameProxies DEF IInv, Types

\* The message is taken from the bus.
LEMMA TakenFacts ==
  ASSUME IInv, NEW k \in Kinds, Taken(k)
  PROVE  /\ bus' \in [Kinds -> Nat] /\ bus'[k] = bus[k] - 1
         /\ \A j \in Kinds \ {k} : bus'[j] = bus[j]
<1>1. bus \in [Kinds -> Nat] /\ bus[k] > 0 /\ bus' = [bus EXCEPT ![k] = @ - 1]
  BY DEF IInv, Types, Taken
<1>2. bus[k] - 1 \in Nat
  BY <1>1
<1>3. QED
  BY <1>1, <1>2

\* The bus slips, within its bound.
LEMMA SlipFacts ==
  ASSUME IInv, NEW k \in Kinds, NEW n \in {-1, 1}, Slip(k, n)
  PROVE  /\ surplus' \in [Kinds -> Int] /\ slips' \in Nat /\ Slipped'
         /\ surplus'[k] = surplus[k] + n
         /\ \A j \in Kinds \ {k} : surplus'[j] = surplus[j]
<1>1. /\ surplus \in [Kinds -> Int] /\ slips \in Nat /\ slips < MaxSlips /\ slips' = slips + 1
      /\ surplus' = [surplus EXCEPT ![k] = @ + n] /\ \A j \in Kinds : surplus[j] <= slips
      /\ MaxSlips \in Nat
  BY StreamingAssumption DEF IInv, Types, Slip, Slipped
<1>2. /\ surplus' \in [Kinds -> Int] /\ surplus'[k] = surplus[k] + n
      /\ \A j \in Kinds \ {k} : surplus'[j] = surplus[j]
  BY <1>1
<1>3. slips' \in Nat /\ slips' <= MaxSlips
  BY <1>1
<1>4. ASSUME NEW j \in Kinds PROVE surplus'[j] <= slips'
  <2>1. surplus[j] \in Int /\ surplus[j] <= slips
    BY <1>1
  <2>2. surplus'[j] = surplus[j] \/ surplus'[j] = surplus[j] + n
    BY <1>2
  <2>3. QED
    BY <1>1, <2>1, <2>2
<1>5. QED
  BY <1>2, <1>3, <1>4 DEF Slipped, Kinds, Started, Complete, Invalid

\* One run of a handler takes one of what is due, whether it is the only run
\* for its message or one more.
LEMMA HandledFacts ==
  ASSUME IInv, NEW k \in Kinds, Handled(k)
  PROVE  /\ bus' \in [Kinds -> Nat] /\ surplus' \in [Kinds -> Int] /\ slips' \in Nat /\ Slipped'
         /\ bus'[k] - surplus'[k] = (bus[k] - surplus[k]) - 1
         /\ \A j \in Kinds \ {k} : bus'[j] = bus[j] /\ surplus'[j] = surplus[j]
<1>0. bus \in [Kinds -> Nat] /\ surplus \in [Kinds -> Int]
  BY DEF IInv, Types
<1>1. CASE Taken(k) /\ UNCHANGED <<surplus, slips>>
  <2>1. /\ bus' \in [Kinds -> Nat] /\ bus'[k] = bus[k] - 1
        /\ \A j \in Kinds \ {k} : bus'[j] = bus[j]
    BY <1>1, TakenFacts
  <2>2. surplus' \in [Kinds -> Int] /\ slips' \in Nat /\ Slipped'
    BY <1>1, SameSlips
  <2>3. bus'[k] - surplus'[k] = (bus[k] - surplus[k]) - 1
    BY <1>0, <1>1, <2>1
  <2>4. QED
    BY <1>1, <2>1, <2>2, <2>3
<1>2. CASE bus[k] > 0 /\ UNCHANGED bus /\ Slip(k, 1)
  <2>1. /\ surplus' \in [Kinds -> Int] /\ slips' \in Nat /\ Slipped'
        /\ surplus'[k] = surplus[k] + 1
        /\ \A j \in Kinds \ {k} : surplus'[j] = surplus[j]
    BY <1>2, SlipFacts
  <2>2. bus'[k] - surplus'[k] = (bus[k] - surplus[k]) - 1
    BY <1>0, <1>2, <2>1
  <2>3. QED
    BY <1>0, <1>2, <2>1, <2>2
<1>3. QED
  BY <1>1, <1>2 DEF Handled

\* MessageMetrics counts a start.
LEMMA OnStartedStep ==
  ASSUME IInv, OnStarted
  PROVE  IInv'
<1>1. /\ Handled(Started) /\ metrics' = [metrics EXCEPT !.started = @ + 1]
      /\ UNCHANGED <<st, sent, frames, cursor, unserved, blacklist>>
  BY DEF OnStarted, proxyVars
<1>2. metrics \in [started : Nat, completed : Nat] /\ blacklist \in [1..Proxies -> Nat]
  BY DEF IInv, Types
<1>3. /\ bus' \in [Kinds -> Nat] /\ surplus' \in [Kinds -> Int] /\ slips' \in Nat /\ Slipped'
      /\ bus'[Started] - surplus'[Started] = (bus[Started] - surplus[Started]) - 1
      /\ bus'[Complete] = bus[Complete] /\ surplus'[Complete] = surplus[Complete]
      /\ \A p \in 1..Proxies : /\ bus'[Invalid(p)] = bus[Invalid(p)]
                               /\ surplus'[Invalid(p)] = surplus[Invalid(p)]
  BY <1>1, KindFacts, HandledFacts
<1>4. /\ metrics' \in [started : Nat, completed : Nat]
      /\ metrics'.started = metrics.started + 1 /\ metrics'.completed = metrics.completed
  BY <1>1, <1>2
<1>5. Counts'
  <2>1. metrics'.started + (bus'[Started] - surplus'[Started]) =
          metrics.started + (bus[Started] - surplus[Started])
    BY <1>3, <1>4, BooksTypes
  <2>2. QED
    BY <1>1, <1>3, <1>4, <2>1, SameStreams DEF IInv, Counts, Due, Started, Complete, Invalid
<1>6. QED
  BY <1>1, <1>2, <1>3, <1>4, <1>5, SameStreams DEF IInv, Types, Kinds, Started, Complete, Invalid

\* MessageMetrics counts a completion.
LEMMA OnCompleteStep ==
  ASSUME IInv, OnComplete
  PROVE  IInv'
<1>1. /\ Handled(Complete) /\ metrics' = [metrics EXCEPT !.completed = @ + 1]
      /\ UNCHANGED <<st, sent, frames, cursor, unserved, blacklist>>
  BY DEF OnComplete, proxyVars
<1>2. metrics \in [started : Nat, completed : Nat] /\ blacklist \in [1..Proxies -> Nat]
  BY DEF IInv, Types
<1>3. /\ bus' \in [Kinds -> Nat] /\ surplus' \in [Kinds -> Int] /\ slips' \in Nat /\ Slipped'
      /\ bus'[Complete] - surplus'[Complete] = (bus[Complete] - surplus[Complete]) - 1
      /\ bus'[Started] = bus[Started] /\ surplus'[Started] = surplus[Started]
      /\ \A p \in 1..Proxies : /\ bus'[Invalid(p)] = bus[Invalid(p)]
                               /\ surplus'[Invalid(p)] = surplus[Invalid(p)]
  BY <1>1, KindFacts, HandledFacts
<1>4. /\ metrics' \in [started : Nat, completed : Nat]
      /\ metrics'.completed = metrics.completed + 1 /\ metrics'.started = metrics.started
  BY <1>1, <1>2
<1>5. Counts'
  <2>1. metrics'.completed + (bus'[Complete] - surplus'[Complete]) =
          metrics.completed + (bus[Complete] - surplus[Complete])
    BY <1>3, <1>4, BooksTypes
  <2>2. QED
    BY <1>1, <1>3, <1>4, <2>1, SameStreams DEF IInv, Counts, Due, Started, Complete, Invalid
<1>6. QED
  BY <1>1, <1>2, <1>3, <1>4, <1>5, SameStreams DEF IInv, Types, Kinds, Started, Complete, Invalid

\* ProxyBlacklist counts a failure.
LEMMA OnInvalidStep ==
  ASSUME IInv, NEW p \in 1..Proxies, OnInvalid(p)
  PROVE  IInv'
<1>1. /\ Handled(Invalid(p)) /\ blacklist' = [blacklist EXCEPT ![p] = @ + 1]
      /\ UNCHANGED <<st, sent, frames, cursor, unserved, metrics>>
  BY DEF OnInvalid, proxyVars
<1>2. metrics \in [started : Nat, completed : Nat] /\ blacklist \in [1..Proxies -> Nat]
  BY DEF IInv, Types
<1>3. /\ bus' \in [Kinds -> Nat] /\ surplus' \in [Kinds -> Int] /\ slips' \in Nat /\ Slipped'
      /\ bus'[Invalid(p)] - surplus'[Invalid(p)] = (bus[Invalid(p)] - surplus[Invalid(p)]) - 1
      /\ bus'[Started] = bus[Started] /\ surplus'[Started] = surplus[Started]
      /\ bus'[Complete] = bus[Complete] /\ surplus'[Complete] = surplus[Complete]
      /\ \A q \in 1..Proxies : q # p => /\ bus'[Invalid(q)] = bus[Invalid(q)]
                                        /\ surplus'[Invalid(q)] = surplus[Invalid(q)]
  BY <1>1, KindFacts, HandledFacts
<1>4. /\ blacklist' \in [1..Proxies -> Nat]
      /\ \A q \in 1..Proxies : blacklist'[q] = IF q = p THEN blacklist[p] + 1 ELSE blacklist[q]
  BY <1>1, <1>2
<1>5. Counts'
  <2>1. ASSUME NEW q \in 1..Proxies
        PROVE  blacklist'[q] + (bus'[Invalid(q)] - surplus'[Invalid(q)]) =
                 blacklist[q] + (bus[Invalid(q)] - surplus[Invalid(q)])
    <3>1. CASE q = p
      <4>1. blacklist'[p] = blacklist[p] + 1
        BY <1>4
      <4>2. blacklist[p] \in Nat /\ bus[Invalid(p)] \in Nat /\ surplus[Invalid(p)] \in Int
        BY BooksTypes
      <4>3. blacklist'[p] + (bus'[Invalid(p)] - surplus'[Invalid(p)]) =
              blacklist[p] + (bus[Invalid(p)] - surplus[Invalid(p)])
        BY <1>3, <4>1, <4>2
      <4>4. QED
        BY <3>1, <4>3
    <3>2. CASE q # p
      BY <1>3, <1>4, <3>2
    <3>3. QED
      BY <3>1, <3>2
  <2>2. QED
    BY <1>1, <1>3, <2>1, SameStreams DEF IInv, Counts, Due, Started, Complete, Invalid
<1>6. QED
  BY <1>1, <1>2, <1>3, <1>4, <1>5, SameStreams DEF IInv, Types, Kinds, Started, Complete, Invalid

\* A message that goes to the dead letters is no longer due.
LEMMA UnseenStep ==
  ASSUME IInv, NEW k \in Kinds, Unseen(k)
  PROVE  IInv'
<1>1. /\ Taken(k) /\ Slip(k, -1)
      /\ UNCHANGED <<st, sent, frames, cursor, unserved, metrics, blacklist>>
  BY DEF Unseen, proxyVars
<1>2. /\ bus' \in [Kinds -> Nat] /\ bus'[k] = bus[k] - 1
      /\ \A j \in Kinds \ {k} : bus'[j] = bus[j]
  BY <1>1, TakenFacts
<1>3. /\ surplus' \in [Kinds -> Int] /\ slips' \in Nat /\ Slipped'
      /\ surplus'[k] = surplus[k] + -1
      /\ \A j \in Kinds \ {k} : surplus'[j] = surplus[j]
  BY <1>1, SlipFacts
<1>4. \A j \in Kinds : bus'[j] - surplus'[j] = bus[j] - surplus[j]
  <2>1. bus[k] \in Nat /\ surplus[k] \in Int
    BY DEF IInv, Types
  <2>2. bus'[k] - surplus'[k] = bus[k] - surplus[k]
    BY <1>2, <1>3, <2>1
  <2>3. QED
    BY <1>2, <1>3, <2>2
<1>5. Counts'
  <2>1. /\ bus'[Started] - surplus'[Started] = bus[Started] - surplus[Started]
        /\ bus'[Complete] - surplus'[Complete] = bus[Complete] - surplus[Complete]
        /\ \A p \in 1..Proxies : bus'[Invalid(p)] - surplus'[Invalid(p)] =
                                    bus[Invalid(p)] - surplus[Invalid(p)]
    BY <1>4, KindFacts
  <2>2. QED
    BY <1>1, <2>1, SameStreams DEF IInv, Counts, Due, Started, Complete, Invalid
<1>6. QED
  BY <1>1, <1>2, <1>3, <1>5, SameStreams DEF IInv, Types, Kinds, Started, Complete, Invalid

---------------------------------------------------------------------------
\* Every step keeps the invariant.
LEMMA StepIInv == IInv /\ [Next]_vars => IInv'
<1> SUFFICES ASSUME IInv, [Next]_vars PROVE IInv'
  OBVIOUS
<1>1. ASSUME NEW s \in Streams, Lines(s) PROVE IInv'
  BY <1>1, EventLinesStep, BlankLineStep, FlushStep, CutStep, EofStep DEF Lines
<1>2. ASSUME NEW s \in Streams, Step(s) PROVE IInv'
  BY <1>1, <1>2, ConnectStep, DialFailsStep, DialledStep, DeniedStep, TakeStep DEF Step
<1>3. CASE Handle
  BY <1>3, OnStartedStep, OnCompleteStep, OnInvalidStep, UnseenStep DEF Handle
<1>4. CASE UNCHANGED vars
  <2>1. UNCHANGED <<st, sent, frames, cursor, unserved, bus, metrics, blacklist, surplus, slips>>
    BY <1>4 DEF vars
  <2>2. Counts'
    BY <2>1, SameStreams DEF IInv, Counts, Due, Started, Complete, Invalid
  <2>3. QED
    BY <2>1, <2>2, SameStreams, SameSlips DEF IInv, Types, Kinds, Started, Complete, Invalid
<1>5. QED
  BY <1>2, <1>3, <1>4, AskStep, AbandonStep DEF Next

\* The invariant holds in every reachable state.
LEMMA InvariantIInv == Spec => []IInv
BY InitIInv, StepIInv, PTL DEF Spec

---------------------------------------------------------------------------
(* What the invariant says.                                                *)

\* Type correctness: the metrics and the blacklist count every answer at most
\* once, and once more per slip of the bus, however often answers break off
\* (handlers.py on_started, on_complete, on_invalid).
THEOREM TypeCorrect == Spec => []TypeOK
<1>1. IInv => TypeOK
  <2> SUFFICES ASSUME IInv PROVE TypeOK
    OBVIOUS
  <2>1. \A s \in Streams : /\ st[s].mode \in Modes \cup {"none"}
                           /\ st[s].got \in 0..MaxPieces /\ st[s].text \in 0..MaxPieces
    BY StreamTypes DEF StRecords
  <2>2. cursor \in 0..(Proxies - 1)
    BY DEF IInv, Types
  <2>3. /\ Cardinality(OverSet) \in Nat /\ Cardinality(OverSet) <= Cardinality(Streams)
        /\ Cardinality(SaidSet) \in Nat /\ Cardinality(SaidSet) <= Cardinality(Streams)
        /\ Cardinality(NamedSet) \in Nat /\ Cardinality(NamedSet) <= Cardinality(Streams)
        /\ Cardinality(Streams) \in Nat /\ MaxSlips \in Nat
    BY SetTypes, Sizes, StreamingAssumption, FS_CardinalityType
  <2>4. \A k \in Kinds : surplus[k] <= MaxSlips
    <3> TAKE k \in Kinds
    <3>1. surplus[k] \in Int /\ slips \in Nat /\ surplus[k] <= slips /\ slips <= MaxSlips
      BY DEF IInv, Types, Slipped
    <3>2. QED
      BY <2>3, <3>1
  <2>5. ASSUME NEW p \in 1..Proxies
        PROVE  blacklist[p] + bus[Invalid(p)] <= Cardinality(Streams) + MaxSlips
    <3>1. /\ blacklist[p] \in Nat /\ bus[Invalid(p)] \in Nat /\ surplus[Invalid(p)] \in Int
          /\ surplus[Invalid(p)] <= MaxSlips
          /\ blacklist[p] + (bus[Invalid(p)] - surplus[Invalid(p)]) <= Cardinality(OverSet)
      BY <2>4, BooksTypes, KindFacts DEF IInv, Counts, Due
    <3>2. QED
      BY <2>3, <3>1
  <2>6. metrics.started \in 0..Cardinality(Streams) + MaxSlips
    <3>1. /\ metrics.started \in Nat /\ bus[Started] \in Nat /\ surplus[Started] \in Int
          /\ surplus[Started] <= MaxSlips
          /\ metrics.started + (bus[Started] - surplus[Started]) = Cardinality(NamedSet)
      BY <2>4, BooksTypes, KindFacts DEF IInv, Counts, Due
    <3>2. QED
      BY <2>3, <3>1
  <2>7. metrics.completed \in 0..Cardinality(Streams) + MaxSlips
    <3>1. /\ metrics.completed \in Nat /\ bus[Complete] \in Nat /\ surplus[Complete] \in Int
          /\ surplus[Complete] <= MaxSlips
          /\ metrics.completed + (bus[Complete] - surplus[Complete]) = Cardinality(SaidSet)
      BY <2>4, BooksTypes, KindFacts DEF IInv, Counts, Due
    <3>2. QED
      BY <2>3, <3>1
  <2>8. QED
    BY <2>1, <2>2, <2>5, <2>6, <2>7 DEF TypeOK
<1>2. QED
  BY <1>1, InvariantIInv, PTL

\* http.py:318 _iterate_stream: a message announced as complete was read to
\* its message_stop, and is announced with its whole text.
THEOREM CompleteIsWholeHolds == Spec => []CompleteIsWhole
<1>1. IInv => CompleteIsWhole
  BY StreamTypes DEF CompleteIsWhole, Reading
<1>2. QED
  BY <1>1, InvariantIInv, PTL

\* completion_service.py:119 stream(): the pieces of text reach the client in
\* order, each once, however and wherever the answer ends.
THEOREM TextInOrderHolds == Spec => []TextInOrder
<1>1. IInv => TextInOrder
  <2> SUFFICES ASSUME IInv, NEW s \in Streams PROVE TextOK(st[s].mode, st[s].got, frames[s])
    BY DEF TextInOrder, TextOK
  <2>1. /\ frames[s] \in Seq(Frames) /\ Spoken(st[s], frames[s]) /\ st[s].got \in Nat
    BY StreamTypes, StreamingAssumption DEF StRecords
  <2>2. QED
    BY <2>1, OpenText DEF Spoken
<1>2. QED
  BY <1>1, InvariantIInv, PTL

\* handlers.py:191 _completion_sse, _methods_sse: a streamed answer that is over
\* ends in one DONE, after one finish, tool call or error.
THEOREM EndsOnceHolds == Spec => []EndsOnce
<1>1. IInv => EndsOnce
  <2> SUFFICES ASSUME IInv, NEW s \in Streams, st[s].pc = "over", st[s].mode \notin Plain
               PROVE  EndsOK(st[s].mode, frames[s])
    BY DEF EndsOnce, EndsOK, Closing
  <2>1. QED
    BY StreamTypes DEF Spoken
<1>2. QED
  BY <1>1, InvariantIInv, PTL

\* list.py:31 ListProxy.get: no fit proxy waits for as many calls as there are
\* proxies.
THEOREM RotationFairHolds == Spec => []RotationFair
<1>1. IInv => RotationFair
  <2> SUFFICES ASSUME IInv, NEW p \in 1..Proxies PROVE unserved[p] < Proxies
    BY DEF RotationFair
  <2>1. /\ Proxies \in Nat /\ unserved[p] \in Nat /\ cursor \in 0..(Proxies - 1)
        /\ unserved[p] + Distance(cursor, p) <= Proxies - 1
    BY StreamingAssumption DEF IInv, Types, Rotation
  <2>2. Distance(cursor, p) \in 0..(Proxies - 1)
    BY <2>1, Reached
  <2>3. QED
    BY <2>1, <2>2
<1>2. QED
  BY <1>1, InvariantIInv, PTL

\* Two sets of answers that have none in common.
LEMMA Apart ==
  ASSUME NEW A \in SUBSET Streams, NEW B \in SUBSET Streams, A \cap B = {}
  PROVE  Cardinality(A \cup B) = Cardinality(A) + Cardinality(B)
<1>1. /\ IsFiniteSet(A) /\ IsFiniteSet(B) /\ Cardinality(A) \in Nat /\ Cardinality(B) \in Nat
  BY Sizes
<1>2. Cardinality(A \cap B) = 0
  BY FS_EmptySet
<1>3. Cardinality(A \cup B) = Cardinality(A) + Cardinality(B) - Cardinality(A \cap B)
  BY <1>1, FS_Union
<1>4. QED
  BY <1>1, <1>2, <1>3

\* handlers.py:109 MessageMetrics.in_flight: once the bus is quiet, what the
\* routing reads is the number of announced messages under way, more by those
\* that broke off and less by those completed without having been announced,
\* and by the slips of the bus.
THEOREM InFlightExactHolds == Spec => []InFlightExact
<1>1. IInv => InFlightExact
  <2> DEFINE U == {s \in Streams : st[s].uuid = "known" /\ UnderWay(s)}
             B == {s \in Streams : BrokenOff(s)}
             N == {s \in Streams : Nameless(s)}
             W == {s \in Streams : st[s].uuid = "known" /\ st[s].said >= 0}
  <2> SUFFICES ASSUME IInv, \A k \in Kinds : bus[k] = 0
               PROVE  InFlight = Positive(Cardinality(U) + Cardinality(B) - Cardinality(N)
                                          + surplus[Started] - surplus[Complete])
    BY DEF InFlightExact
  <2>1. /\ U \in SUBSET Streams /\ B \in SUBSET Streams
        /\ N \in SUBSET Streams /\ W \in SUBSET Streams
    OBVIOUS
  <2>2. ASSUME NEW s \in Streams
        PROVE  /\ s \in NamedSet <=> s \in U \/ s \in B \/ s \in W
               /\ ~(s \in U /\ s \in B) /\ ~(s \in U /\ s \in W) /\ ~(s \in B /\ s \in W)
               /\ s \in SaidSet <=> s \in W \/ s \in N
               /\ ~(s \in W /\ s \in N)
    <3>1. /\ Reading(st[s], sent[s]) /\ st[s].pc \in PCs /\ st[s].said \in Int
      BY StreamTypes, StreamingAssumption DEF StRecords
    <3>2. s \in U => st[s].pc \in {"read", "yield"} /\ ~(st[s].said >= 0)
      BY <3>1 DEF Reading, UnderWay
    <3>3. st[s].uuid = "known" => st[s].pc \notin {"idle", "connect", "dial"}
      BY <3>1 DEF Reading
    <3>4. st[s].uuid = "known" /\ st[s].pc \in {"read", "yield"} /\ ~(st[s].said >= 0) => s \in U
      BY <3>1 DEF Reading, UnderWay
    <3>5. s \in B <=> st[s].uuid = "known" /\ st[s].pc \in {"over", "gone"} /\ ~(st[s].said >= 0)
      BY <3>1 DEF BrokenOff, Ended
    <3>6. s \in N <=> st[s].uuid # "known" /\ st[s].said >= 0
      BY DEF Nameless
    <3>7. s \in W <=> st[s].uuid = "known" /\ st[s].said >= 0
      OBVIOUS
    <3>8. s \in U => st[s].uuid = "known"
      OBVIOUS
    <3>9. (s \in NamedSet <=> st[s].uuid = "known") /\ (s \in SaidSet <=> st[s].said >= 0)
      BY DEF NamedSet, SaidSet
    <3> HIDE DEF U, B, N, W
    <3>10. QED
      BY <3>1, <3>2, <3>3, <3>4, <3>5, <3>6, <3>7, <3>8, <3>9 DEF PCs
  <2> HIDE DEF U, B, N, W
  <2>3. /\ NamedSet = (U \cup B) \cup W /\ U \cap B = {} /\ (U \cup B) \cap W = {}
        /\ SaidSet = W \cup N /\ W \cap N = {} /\ U \cup B \in SUBSET Streams
    BY <2>1, <2>2, SetTypes
  <2>4. /\ Cardinality(U) \in Nat /\ Cardinality(B) \in Nat
        /\ Cardinality(N) \in Nat /\ Cardinality(W) \in Nat
    BY <2>1, Sizes
  <2>5. Cardinality(NamedSet) = Cardinality(U) + Cardinality(B) + Cardinality(W)
    <3>1. Cardinality(U \cup B) = Cardinality(U) + Cardinality(B)
      BY <2>1, <2>3, Apart
    <3>2. Cardinality((U \cup B) \cup W) = Cardinality(U \cup B) + Cardinality(W)
      BY <2>1, <2>3, Apart
    <3>3. QED
      BY <2>3, <3>1, <3>2
  <2>6. Cardinality(SaidSet) = Cardinality(W) + Cardinality(N)
    <3>1. Cardinality(W \cup N) = Cardinality(W) + Cardinality(N)
      BY <2>1, <2>3, Apart
    <3>2. QED
      BY <2>3, <3>1
  <2>7. bus[Started] = 0 /\ bus[Complete] = 0
    BY KindFacts
  <2>8. /\ metrics.started + (0 - surplus[Started]) = Cardinality(NamedSet)
        /\ metrics.completed + (0 - surplus[Complete]) = Cardinality(SaidSet)
    BY <2>7 DEF IInv, Counts, Due
  <2>9. QED
    BY <2>4, <2>5, <2>6, <2>8, BooksTypes DEF InFlight, Positive
<1>2. QED
  BY <1>1, InvariantIInv, PTL

=============================================================================

-------------------------- MODULE StreamBridgeProofs --------------------------
(***************************************************************************)
(* Proofs about StreamBridge for any number of lines: the types, the three *)
(* safety invariants of the stream and that the bridge implements          *)
(* StreamRelay.                                                            *)
(***************************************************************************)
EXTENDS StreamBridge, SequenceTheorems, TLAPS

(* What is on its way to the client, and what has reached it.                *)
Stream     == client.got \o handler.buffer \o translator.out
Flowing    == client.connected /\ handler.pc \in {"read", "write"}
Ends(chunks)     == \E i \in DOMAIN chunks : chunks[i].kind = "done"
DoneLast(chunks) == \A i \in DOMAIN chunks : chunks[i].kind = "done" => i = Len(chunks)
DoneMade   == Ends(client.got) \/ Ends(handler.buffer) \/ Ends(translator.out)

(* The backend has said that the answer is complete.                         *)
EndSaid ==
  \/ upstream = "ended" /\ taken = Len(sent)
  \/ \E i \in 1..taken : sent[i] \in Ending \cup {"[DONE]"}

(* Before the call nothing has happened; a buffer holds one chunk, and only  *)
(* while it is to be written; a response passed on has no goroutine.         *)
Shape ==
  /\ handler.pc = "calling" =>
       /\ translator = Goroutine
       /\ sent = <<>>
       /\ upstream = "open"
       /\ client.got = <<>>
  /\ IF handler.pc = "write" THEN Len(handler.buffer) = 1 ELSE handler.buffer = <<>>
  /\ IF translator.pc = "write" THEN Len(translator.out) \in 1..2 ELSE translator.out = <<>>
  /\ translator.pc = "scan" => ~translator.returns
  /\ bridge = "direct" => translator = Goroutine
  /\ pipe.reader = "closed" => handler.pc \in {"cancel", "returned"}
  /\ handler.pc = "returned" => ctx # "live"

(* After a finish only noise and [DONE], after [DONE] nothing.               *)
Protocol ==
  \A i \in DOMAIN sent :
    /\ sent[i] = "[DONE]" => i = Len(sent)
    /\ sent[i] \in Ending => \A j \in DOMAIN sent : j > i => sent[j] \in {"noise", "[DONE]"}

(* Where the end of the answer comes from, and that it comes once and last.  *)
Endings ==
  /\ translator.done => \E i \in 1..taken : sent[i] \in Ending
  /\ DoneMade => /\ EndSaid
                 /\ bridge # "direct"
                 /\ \/ translator.done
                    \/ translator.returns
                    \/ translator.pc \notin {"scan", "write"}
  /\ DoneLast(client.got)
  /\ Flowing => DoneLast(Stream)
  /\ ToldDone => Carried(client.got) = Pieces(taken)

(* A body that is passed on arrives line by line.                            *)
PassedOn ==
  bridge = "direct" =>
    /\ Len(client.got) <= taken
    /\ \A i \in DOMAIN client.got : client.got[i] = Chunk("raw", i)
    /\ Flowing => Len(client.got) + Len(handler.buffer) = taken
    /\ Flowing /\ handler.buffer # <<>> => handler.buffer[1] = Chunk("raw", taken)

IInv == TypeOK /\ Shape /\ Protocol /\ NothingLost /\ Endings /\ PassedOn

-----------------------------------------------------------------------------
(* Sequences of chunks.                                                      *)
LEMMA EmptyChunks ==
  /\ <<>> \in Seq(Chunks) /\ Nothing = <<>>
  /\ Carried(<<>>) = {} /\ InOrder(<<>>) /\ ~Ends(<<>>) /\ DoneLast(<<>>)
  <1>1. DOMAIN <<>> = {}
    BY EmptySeq, LenProperties
  <1> QED
    BY <1>1 DEF Carried, InOrder, Ends, DoneLast, Nothing

LEMMA OneChunk ==
  ASSUME NEW chunk \in Chunks
  PROVE  /\ <<chunk>> \in Seq(Chunks) /\ Len(<<chunk>>) = 1
         /\ Carried(<<chunk>>) = IF Carries(chunk) THEN {chunk.at} ELSE {}
         /\ InOrder(<<chunk>>) /\ DoneLast(<<chunk>>)
         /\ Ends(<<chunk>>) <=> chunk.kind = "done"
  BY DEF Carried, InOrder, Ends, DoneLast

LEMMA CarriedAre ==
  ASSUME NEW s \in Seq(Chunks)
  PROVE  /\ Carried(s) \subseteq Nat
         /\ \A n : n \in Carried(s) <=> \E i \in 1..Len(s) : Carries(s[i]) /\ n = s[i].at
  <1>1. DOMAIN s = 1..Len(s) /\ \A i \in 1..Len(s) : s[i] \in Chunks /\ s[i].at \in Nat
    <2>1. DOMAIN s = 1..Len(s)
      BY LenProperties
    <2>2. \A i \in 1..Len(s) : s[i] \in Chunks
      BY ElementOfSeq
    <2>3. \A chunk \in Chunks : chunk.at \in Nat
      BY MaxLinesAssumption DEF Chunks
    <2> QED
      BY <2>1, <2>2, <2>3
  <1> QED
    BY <1>1 DEF Carried

LEMMA Joined ==
  ASSUME NEW s \in Seq(Chunks), NEW e \in Seq(Chunks)
  PROVE  /\ s \o e \in Seq(Chunks)
         /\ Carried(s \o e) = Carried(s) \cup Carried(e)
         /\ InOrder(s \o e) <=>
              InOrder(s) /\ InOrder(e) /\ \A i \in Carried(s), j \in Carried(e) : i < j
         /\ Ends(s \o e) <=> Ends(s) \/ Ends(e)
         /\ DoneLast(s \o e) <=> IF e = <<>> THEN DoneLast(s) ELSE ~Ends(s) /\ DoneLast(e)
  <1> DEFINE j == s \o e
  <1>1. /\ j \in Seq(Chunks) /\ Len(j) = Len(s) + Len(e)
        /\ Len(s) \in Nat /\ Len(e) \in Nat
        /\ DOMAIN j = 1..Len(j) /\ DOMAIN s = 1..Len(s) /\ DOMAIN e = 1..Len(e)
    BY ConcatProperties, LenProperties
  <1>len. Len(j) = Len(s) + Len(e) /\ Len(s) \in Nat /\ Len(e) \in Nat
    BY <1>1
  <1>at. \A i \in 1..(Len(s) + Len(e)) : j[i] = IF i <= Len(s) THEN s[i] ELSE e[i - Len(s)]
    BY ConcatProperties
  <1> HIDE DEF j
  <1>left. \A i \in 1..Len(s) : i \in 1..Len(j) /\ j[i] = s[i]
    BY <1>1, <1>at
  <1>right. \A i \in 1..Len(e) : Len(s) + i \in 1..Len(j) /\ j[Len(s) + i] = e[i]
    <2> TAKE i \in 1..Len(e)
    <2>1. /\ Len(s) + i \in 1..(Len(s) + Len(e)) /\ ~(Len(s) + i <= Len(s))
          /\ (Len(s) + i) - Len(s) = i
      BY <1>len
    <2> QED
      BY <1>len, <1>at, <2>1
  <1>each. \A i \in 1..Len(j) :
             \/ i \in 1..Len(s) /\ j[i] = s[i]
             \/ \E k \in 1..Len(e) : i = Len(s) + k /\ j[i] = e[k]
    <2> SUFFICES ASSUME NEW i \in 1..Len(j), i > Len(s)
                 PROVE  \E k \in 1..Len(e) : i = Len(s) + k /\ j[i] = e[k]
      BY <1>1, <1>left
    <2>1. i - Len(s) \in 1..Len(e) /\ i = Len(s) + (i - Len(s))
      BY <1>1
    <2> QED
      BY <1>right, <2>1
  <1>2. Carried(j) = Carried(s) \cup Carried(e)
    <2>1. ASSUME NEW n \in Carried(j) PROVE n \in Carried(s) \cup Carried(e)
      <3>1. PICK i \in 1..Len(j) : Carries(j[i]) /\ n = j[i].at
        BY <1>1, <2>1, CarriedAre
      <3> QED
        BY <1>each, <3>1, CarriedAre
    <2>2. ASSUME NEW n \in Carried(s) PROVE n \in Carried(j)
      BY <1>1, <1>left, CarriedAre
    <2>3. ASSUME NEW n \in Carried(e) PROVE n \in Carried(j)
      <3>1. PICK i \in 1..Len(e) : Carries(e[i]) /\ n = e[i].at
        BY <2>3, CarriedAre
      <3> QED
        BY <1>1, <1>right, <3>1, CarriedAre
    <2> QED
      BY <2>1, <2>2, <2>3
  <1>3. InOrder(j) => InOrder(s) /\ InOrder(e)
                      /\ \A i \in Carried(s), k \in Carried(e) : i < k
    <2> SUFFICES ASSUME InOrder(j)
                 PROVE  InOrder(s) /\ InOrder(e)
                        /\ \A i \in Carried(s), k \in Carried(e) : i < k
      OBVIOUS
    <2>1. InOrder(s)
      BY <1>1, <1>left DEF InOrder
    <2>2. InOrder(e)
      <3>1. ASSUME NEW a \in 1..Len(e), NEW b \in 1..Len(e), a < b,
                   Carries(e[a]), Carries(e[b])
            PROVE  e[a].at < e[b].at
        <4>1. /\ Len(s) + a \in 1..Len(j) /\ Len(s) + b \in 1..Len(j)
              /\ Len(s) + a < Len(s) + b
              /\ j[Len(s) + a] = e[a] /\ j[Len(s) + b] = e[b]
          BY <1>1, <1>right, <3>1
        <4> QED
          BY <1>1, <3>1, <4>1 DEF InOrder
      <3> QED
        BY <3>1 DEF InOrder
    <2>3. ASSUME NEW m \in Carried(s), NEW n \in Carried(e) PROVE m < n
      <3>1. PICK a \in 1..Len(s) : Carries(s[a]) /\ m = s[a].at
        BY CarriedAre
      <3>2. PICK b \in 1..Len(e) : Carries(e[b]) /\ n = e[b].at
        BY CarriedAre
      <3>3. /\ a \in 1..Len(j) /\ Len(s) + b \in 1..Len(j) /\ a < Len(s) + b
            /\ j[a] = s[a] /\ j[Len(s) + b] = e[b]
        BY <1>1, <1>left, <1>right
      <3> QED
        BY <1>1, <3>1, <3>2, <3>3 DEF InOrder
    <2> QED
      BY <2>1, <2>2, <2>3
  <1>4. ASSUME InOrder(s), InOrder(e), \A i \in Carried(s), k \in Carried(e) : i < k
        PROVE  InOrder(j)
    <2> SUFFICES ASSUME NEW a \in 1..Len(j), NEW b \in 1..Len(j), a < b,
                        Carries(j[a]), Carries(j[b])
                 PROVE  j[a].at < j[b].at
      BY <1>1 DEF InOrder
    <2>1. CASE b \in 1..Len(s)
      <3>1. a \in 1..Len(s) /\ j[a] = s[a] /\ j[b] = s[b]
        BY <1>1, <1>left, <2>1
      <3> QED
        BY <1>1, <1>4, <2>1, <3>1 DEF InOrder
    <2>2. CASE a \notin 1..Len(s)
      <3>1. PICK m \in 1..Len(e) : a = Len(s) + m /\ j[a] = e[m]
        BY <1>each, <2>2
      <3>2. PICK n \in 1..Len(e) : b = Len(s) + n /\ j[b] = e[n]
        <4>1. b \notin 1..Len(s)
          BY <1>len, <2>2
        <4> QED
          BY <1>each, <4>1
      <3>3. m < n
        BY <1>len, <3>1, <3>2
      <3> QED
        BY <1>1, <1>4, <3>1, <3>2, <3>3 DEF InOrder
    <2>3. CASE a \in 1..Len(s) /\ b \notin 1..Len(s)
      <3>1. j[a].at \in Carried(s) /\ j[b].at \in Carried(e)
        BY <1>left, <1>each, <2>3, CarriedAre
      <3> QED
        BY <1>4, <3>1
    <2> QED
      BY <2>1, <2>2, <2>3
  <1>5. Ends(j) <=> Ends(s) \/ Ends(e)
    <2>1. Ends(j) => Ends(s) \/ Ends(e)
      BY <1>1, <1>each DEF Ends
    <2>2. Ends(s) => Ends(j)
      BY <1>1, <1>left DEF Ends
    <2>3. ASSUME NEW i \in 1..Len(e), e[i].kind = "done" PROVE Ends(j)
      <3>1. Len(s) + i \in 1..Len(j) /\ j[Len(s) + i].kind = "done"
        BY <1>right, <2>3
      <3> QED
        BY <1>1, <3>1 DEF Ends
    <2> QED
      BY <1>1, <2>1, <2>2, <2>3 DEF Ends
  <1>6. DoneLast(j) <=> IF e = <<>> THEN DoneLast(s) ELSE ~Ends(s) /\ DoneLast(e)
    <2>1. CASE e = <<>>
      BY <2>1, ConcatEmptySeq DEF j
    <2>2. CASE e # <<>>
      <3>1. Len(e) > 0
        BY <2>2, EmptySeq
      <3>2. ASSUME DoneLast(j), NEW i \in 1..Len(s), s[i].kind = "done" PROVE FALSE
        <4>1. i = Len(j)
          BY <1>1, <1>left, <3>2 DEF DoneLast
        <4> QED
          BY <1>1, <3>1, <4>1
      <3>3. ASSUME DoneLast(j), NEW i \in 1..Len(e), e[i].kind = "done" PROVE i = Len(e)
        <4>1. Len(s) + i \in 1..Len(j) /\ j[Len(s) + i].kind = "done"
          BY <1>right, <3>3
        <4>2. Len(s) + i = Len(j)
          BY <1>1, <3>3, <4>1 DEF DoneLast
        <4> QED
          BY <1>len, <4>2
      <3>4. ASSUME ~Ends(s), DoneLast(e), NEW i \in 1..Len(j), j[i].kind = "done"
            PROVE  i = Len(j)
        <4>1. PICK k \in 1..Len(e) : i = Len(s) + k /\ j[i] = e[k]
          BY <1>1, <1>each, <3>4 DEF Ends
        <4>2. k = Len(e)
          BY <1>1, <3>4, <4>1 DEF DoneLast
        <4> QED
          BY <1>1, <4>1, <4>2
      <3> QED
        BY <1>1, <2>2, <3>2, <3>3, <3>4 DEF DoneLast, Ends
    <2> QED
      BY <2>1, <2>2
  <1> QED
    BY <1>1, <1>2, <1>3, <1>4, <1>5, <1>6 DEF j

-----------------------------------------------------------------------------
(* The types, field by field.                                                *)
LEMMA Fields ==
  ASSUME TypeOK
  PROVE  /\ translator = [pc |-> translator.pc, out |-> translator.out,
                          done |-> translator.done, returns |-> translator.returns]
         /\ translator.out \in Seq(Chunks)
         /\ translator.done \in BOOLEAN /\ translator.returns \in BOOLEAN
         /\ handler = [pc |-> handler.pc, buffer |-> handler.buffer]
         /\ handler.buffer \in Seq(Chunks)
         /\ client = [connected |-> client.connected, got |-> client.got,
                      status |-> client.status]
         /\ client.got \in Seq(Chunks) /\ client.connected \in BOOLEAN
         /\ pipe = [writer |-> pipe.writer, reader |-> pipe.reader]
         /\ sent \in Seq(Lines) /\ DOMAIN sent = 1..Len(sent) /\ Len(sent) \in Nat
         /\ \A i \in 1..Len(sent) : sent[i] \in Lines
         /\ taken \in Nat /\ taken <= Len(sent) /\ Len(sent) <= MaxLines
  <1>1. sent \in Seq(Lines) /\ Len(sent) <= MaxLines /\ taken \in 0..Len(sent)
    BY DEF TypeOK
  <1>2. DOMAIN sent = 1..Len(sent) /\ Len(sent) \in Nat /\ \A i \in 1..Len(sent) : sent[i] \in Lines
    BY <1>1, LenProperties, ElementOfSeq
  <1>3. taken \in Nat /\ taken <= Len(sent)
    BY <1>1, <1>2
  <1> QED
    BY <1>1, <1>2, <1>3 DEF TypeOK, Workers, Pipes, Handlers, Clients

(* A chunk of a line the translator looks at is a chunk.                     *)
LEMMA NewChunks ==
  ASSUME TypeOK
  PROVE  \A kind \in {"text", "done", "error", "raw"} :
           Chunk(kind, taken + 1) \in Chunks
  BY Fields, MaxLinesAssumption DEF Chunk, Chunks

(* Nothing but what the action says: the chunks a line is turned into.       *)
LEMMA Translation ==
  ASSUME TypeOK, TranslateLine
  PROVE  \E new \in Seq(Chunks) :
           /\ translator' = [pc |-> "write", out |-> new,
                             done |-> translator.done \/ sent[taken + 1] \in Ending,
                             returns |-> FALSE]
           /\ Len(new) \in 1..2
           /\ InOrder(new) /\ DoneLast(new)
           /\ Ends(new) <=> sent[taken + 1] \in Ending
           /\ Carried(new) = IF sent[taken + 1] = "finish" THEN {} ELSE {taken + 1}
  <1> DEFINE text == Chunk("text", taken + 1)
             done == Chunk("done", taken + 1)
  <1>1. /\ sent[taken + 1] \in {"text", "finish", "text+finish"}
        /\ taken' = taken + 1 /\ sent' = sent
    BY DEF TranslateLine, Scan, Translating
  <1>2. /\ text \in Chunks /\ done \in Chunks
        /\ Carries(text) /\ text.at = taken + 1 /\ text.kind # "done"
        /\ ~Carries(done) /\ done.at = taken + 1 /\ done.kind = "done"
    BY NewChunks DEF Chunk, Carries
  <1> HIDE DEF text, done
  <1>3. /\ <<text>> \in Seq(Chunks) /\ Len(<<text>>) = 1 /\ Carried(<<text>>) = {taken + 1}
        /\ InOrder(<<text>>) /\ DoneLast(<<text>>) /\ ~Ends(<<text>>)
        /\ <<done>> \in Seq(Chunks) /\ Len(<<done>>) = 1 /\ Carried(<<done>>) = {}
        /\ InOrder(<<done>>) /\ DoneLast(<<done>>) /\ Ends(<<done>>) /\ <<done>> # <<>>
    BY <1>2, OneChunk
  <1>4. CASE sent[taken + 1] = "text"
    <2>1. translator' = [pc |-> "write", out |-> <<text>> \o <<>>,
                         done |-> translator.done \/ sent[taken + 1] \in Ending,
                         returns |-> FALSE]
      BY <1>1, <1>4 DEF TranslateLine, Write, text, Ending
    <2>2. <<text>> \o <<>> = <<text>>
      BY <1>3, ConcatEmptySeq
    <2>3. Len(<<text>>) \in 1..2
      BY <1>3
    <2>4. <<text>> \in Seq(Chunks)
      BY <1>3
    <2> WITNESS <<text>> \in Seq(Chunks)
    <2> QED
      BY <1>3, <1>4, <2>1, <2>2, <2>3 DEF Ending
  <1>5. CASE sent[taken + 1] = "finish"
    <2>1. translator' = [pc |-> "write", out |-> <<>> \o <<done>>,
                         done |-> translator.done \/ sent[taken + 1] \in Ending,
                         returns |-> FALSE]
      BY <1>1, <1>3, <1>5 DEF TranslateLine, Write, done, Ending
    <2>2. <<>> \o <<done>> = <<done>>
      BY <1>3, ConcatEmptySeq
    <2>3. Len(<<done>>) \in 1..2
      BY <1>3
    <2>4. <<done>> \in Seq(Chunks)
      BY <1>3
    <2> WITNESS <<done>> \in Seq(Chunks)
    <2> QED
      BY <1>3, <1>5, <2>1, <2>2, <2>3 DEF Ending
  <1>6. CASE sent[taken + 1] = "text+finish"
    <2>1. translator' = [pc |-> "write", out |-> <<text>> \o <<done>>,
                         done |-> translator.done \/ sent[taken + 1] \in Ending,
                         returns |-> FALSE]
      BY <1>1, <1>3, <1>6 DEF TranslateLine, Write, text, done, Ending
    <2>2. /\ <<text>> \o <<done>> \in Seq(Chunks)
          /\ Carried(<<text>> \o <<done>>) = {taken + 1}
          /\ InOrder(<<text>> \o <<done>>) /\ DoneLast(<<text>> \o <<done>>)
          /\ Ends(<<text>> \o <<done>>)
      BY <1>3, Joined
    <2>3. Len(<<text>> \o <<done>>) \in 1..2
      BY <1>3, ConcatProperties
    <2>5. sent[taken + 1] \in Ending /\ sent[taken + 1] # "finish"
      BY <1>6 DEF Ending
    <2>4. <<text>> \o <<done>> \in Seq(Chunks)
      BY <2>2
    <2> WITNESS <<text>> \o <<done>> \in Seq(Chunks)
    <2> QED
      BY <2>1, <2>2, <2>3, <2>5, Zenon
  <1> QED
    BY <1>1, <1>4, <1>5, <1>6

(* FinishFor adds the closing chunk unless the backend has finished itself.  *)
LEMMA Finishing ==
  ASSUME TypeOK, translator.pc = "scan", translator.out = <<>>, FinishFor(taken + 1)
  PROVE  \/ translator.done /\ translator' = [translator EXCEPT !.pc = "close writer"]
         \/ ~translator.done
            /\ translator' = [pc |-> "write", out |-> <<Chunk("done", taken + 1)>>,
                              done |-> FALSE, returns |-> TRUE]
  BY Fields DEF FinishFor, Write

-----------------------------------------------------------------------------
(* What a step of the goroutine does to the answer: it reads a line without  *)
(* a piece, turns the next line into chunks, closes the answer, or stops.    *)
Reads == taken < Len(sent) /\ taken' = taken + 1

Skips ==
  /\ Reads
  /\ sent[taken + 1] \notin {"text", "finish", "text+finish", "[DONE]"}
  /\ UNCHANGED <<translator, pipe>>

Makes(new) ==
  /\ translator' \in Workers /\ translator'.pc = "write" /\ translator'.out = new
  /\ translator'.done <=> translator.done \/ (Reads /\ sent[taken + 1] \in Ending)
  /\ Len(new) \in 1..2
  /\ InOrder(new) /\ DoneLast(new)
  /\ UNCHANGED pipe
  /\ \/ /\ Reads /\ sent[taken + 1] # "noise"
        /\ Carried(new) = IF sent[taken + 1] \in {"text", "text+finish"} THEN {taken + 1} ELSE {}
        /\ Ends(new) <=> sent[taken + 1] \in Ending \cup {"[DONE]"}
        /\ sent[taken + 1] = "[DONE]" => ~translator.done /\ translator'.returns
     \/ /\ AtEnd /\ taken' = taken
        /\ Carried(new) = {} /\ ~translator.done /\ translator'.returns

Stops ==
  /\ taken' = taken \/ (Reads /\ sent[taken + 1] \notin {"text", "finish", "text+finish"})
  /\ translator' \in Workers /\ translator'.pc \in {"close writer", "close body", "exited"}
  /\ translator'.out = <<>> /\ translator'.done = translator.done
  /\ pipe' \in Pipes /\ pipe'.reader = pipe.reader
  /\ Flowing => translator.out = <<>>

LEMMA Closing ==
  ASSUME TypeOK, CloseWithError
  PROVE  /\ translator' \in Workers /\ translator'.pc = "close writer"
         /\ translator'.out = <<>> /\ translator'.done = translator.done
         /\ pipe' \in Pipes /\ pipe'.reader = pipe.reader
  <1>1. translator \in Workers /\ pipe \in Pipes
    BY DEF TypeOK, Workers, Pipes
  <1> QED
    BY <1>1, EmptyChunks DEF CloseWithError, Workers, Pipes

LEMMA TranslatorStep ==
  ASSUME TypeOK, Shape, TranslatorSteps
  PROVE  /\ Translating /\ bridge # "direct" /\ handler.pc # "calling"
         /\ \/ translator.pc = "scan" /\ Skips
            \/ translator.pc = "scan" /\ \E new \in Seq(Chunks) : Makes(new)
            \/ Stops
  <1> USE DEF Translating
  <1>1. bridge # "direct" /\ handler.pc # "calling"
    <2>1. translator.pc # "none"
      BY DEF TranslatorSteps, SkipLine, TranslateLine, RefuseToolCall, RefuseGarbage,
             TranslateDone, ScanEnds, ScanFails, WriteFails, CloseWriter, CloseUpstream, Scan
    <2> QED
      BY <2>1 DEF Shape, Goroutine
  <1>2. translator.pc = "scan" => translator.out = <<>> /\ ~translator.returns
    BY DEF Shape
  <1>3. CASE SkipLine
    BY <1>1, <1>3 DEF SkipLine, Scan, Skips, Reads
  <1>4. CASE TranslateLine
    <2>1. /\ translator.pc = "scan" /\ Reads /\ Translating /\ UNCHANGED pipe
          /\ sent[taken + 1] \in {"text", "finish", "text+finish"}
      BY <1>4 DEF TranslateLine, Scan, Reads
    <2>2. PICK new \in Seq(Chunks) :
             /\ translator' = [pc |-> "write", out |-> new,
                               done |-> translator.done \/ sent[taken + 1] \in Ending,
                               returns |-> FALSE]
             /\ Len(new) \in 1..2
             /\ InOrder(new) /\ DoneLast(new)
             /\ Ends(new) <=> sent[taken + 1] \in Ending
             /\ Carried(new) = IF sent[taken + 1] = "finish" THEN {} ELSE {taken + 1}
      BY <1>4, Translation
    <2>3. Carried(new) = IF sent[taken + 1] \in {"text", "text+finish"} THEN {taken + 1} ELSE {}
      BY <2>1, <2>2
    <2>4. Ends(new) <=> sent[taken + 1] \in Ending \cup {"[DONE]"}
      BY <2>1, <2>2
    <2>5. /\ translator' \in Workers /\ translator'.pc = "write" /\ translator'.out = new
          /\ translator'.done <=> translator.done \/ sent[taken + 1] \in Ending
      BY <2>2 DEF Workers
    <2>6. Makes(new)
      BY <2>1, <2>2, <2>3, <2>4, <2>5 DEF Makes
    <2> QED
      BY <1>1, <2>1, <2>6
  <1>5. CASE RefuseToolCall
    <2> DEFINE new == <<Chunk("error", taken + 1)>>
    <2>1. /\ translator.pc = "scan" /\ Reads /\ Translating /\ UNCHANGED pipe
          /\ sent[taken + 1] = "tool" /\ taken' = taken + 1
      BY <1>5 DEF RefuseToolCall, Scan, Reads
    <2>2. translator' = [pc |-> "write", out |-> new, done |-> translator.done, returns |-> TRUE]
      BY <1>5, <2>1 DEF RefuseToolCall, Write
    <2>3. /\ new \in Seq(Chunks) /\ Len(new) = 1 /\ InOrder(new) /\ DoneLast(new)
          /\ Carried(new) = {} /\ ~Ends(new)
      BY NewChunks, OneChunk DEF Chunk, Carries
    <2> HIDE DEF new
    <2>5. /\ translator' \in Workers /\ translator'.pc = "write" /\ translator'.out = new
          /\ translator'.done <=> translator.done
      BY Fields, <2>2, <2>3 DEF Workers
    <2>4. Makes(new)
      BY <2>1, <2>3, <2>5 DEF Makes, Ending
    <2> QED
      BY <1>1, <2>1, <2>3, <2>4
  <1>6. CASE RefuseGarbage
    <2>1. Stops
      BY <1>2, <1>6, Closing DEF RefuseGarbage, Scan, Stops, Reads
    <2> QED
      BY <1>1, <1>6, <2>1 DEF RefuseGarbage, Scan
  <1>7. ASSUME translator.pc = "scan", FinishFor(taken + 1), UNCHANGED pipe, Translating,
               \/ Reads /\ sent[taken + 1] = "[DONE]"
               \/ AtEnd /\ taken' = taken
        PROVE  (\E new \in Seq(Chunks) : Makes(new)) \/ Stops
    <2>1. CASE translator.done
      <3>1. translator \in Workers /\ pipe \in Pipes
        BY DEF TypeOK, Workers, Pipes
      <3>2. translator' = [translator EXCEPT !.pc = "close writer"]
        BY <1>2, <1>7, <2>1, Finishing
      <3>3. /\ translator' \in Workers /\ translator'.pc = "close writer"
            /\ translator'.out = translator.out /\ translator'.done = translator.done
        BY <3>1, <3>2 DEF Workers
      <3> QED
        BY <1>2, <1>7, <3>1, <3>3 DEF Stops, Reads
    <2>2. CASE ~translator.done
      <3> DEFINE new == <<Chunk("done", taken + 1)>>
      <3>1. translator' = [pc |-> "write", out |-> new, done |-> FALSE, returns |-> TRUE]
        BY <1>2, <1>7, <2>2, Finishing
      <3>2. /\ new \in Seq(Chunks) /\ Len(new) = 1 /\ InOrder(new) /\ DoneLast(new)
            /\ Carried(new) = {} /\ Ends(new)
        BY NewChunks, OneChunk DEF Chunk, Carries
      <3> HIDE DEF new
      <3>3. Makes(new)
        <4>1. /\ translator' \in Workers /\ translator'.pc = "write" /\ translator'.out = new
              /\ translator'.done = FALSE /\ translator'.returns = TRUE
          BY <3>1, <3>2 DEF Workers
        <4>2. ~(Reads /\ sent[taken + 1] \in Ending)
          BY Fields, <1>7 DEF Reads, Ending
        <4>3. CASE Reads /\ sent[taken + 1] = "[DONE]"
          BY <1>7, <2>2, <3>2, <4>1, <4>2, <4>3 DEF Makes, Ending
        <4>4. CASE AtEnd /\ taken' = taken
          BY <1>7, <2>2, <3>2, <4>1, <4>2, <4>4 DEF Makes
        <4> QED
          BY <1>7, <4>3, <4>4
      <3> QED
        BY <3>2, <3>3
    <2> QED
      BY <2>1, <2>2
  <1>8. CASE TranslateDone
    <2>1. /\ translator.pc = "scan" /\ FinishFor(taken + 1) /\ UNCHANGED pipe /\ Translating
          /\ Reads /\ sent[taken + 1] = "[DONE]"
      BY <1>8 DEF TranslateDone, Scan, Reads
    <2> QED
      BY <1>1, <1>7, <2>1
  <1>9. CASE ScanEnds
    BY <1>1, <1>7, <1>9 DEF ScanEnds
  <1>10. CASE ScanFails
    BY <1>1, <1>2, <1>10, Closing DEF ScanFails, Stops
  <1>11. CASE WriteFails
    <2>1. ~Flowing
      BY <1>11 DEF WriteFails, Shape, Flowing
    <2> QED
      BY <1>1, <1>11, <2>1, Closing DEF WriteFails, Stops
  <1>12. CASE CloseWriter \/ CloseUpstream
    <2>1. translator \in Workers /\ pipe \in Pipes
      BY DEF TypeOK, Workers, Pipes
    <2>2. translator.out = <<>>
      BY <1>12 DEF CloseWriter, CloseUpstream, Shape
    <2>3. /\ translator' \in Workers /\ translator'.pc \in {"close body", "exited"}
          /\ translator'.out = translator.out /\ translator'.done = translator.done
      BY <1>12, <2>1 DEF CloseWriter, CloseUpstream, Workers
    <2>4. pipe' \in Pipes /\ pipe'.reader = pipe.reader
      BY <1>12, <2>1 DEF CloseWriter, CloseUpstream, Pipes
    <2> QED
      BY <1>1, <1>12, <2>2, <2>3, <2>4 DEF CloseWriter, CloseUpstream, Stops
  <1> QED
    BY <1>3, <1>4, <1>5, <1>6, <1>8, <1>9, <1>10, <1>11, <1>12 DEF TranslatorSteps

-----------------------------------------------------------------------------
(* The handler leaves its loop, or goes on leaving.                          *)
Leaves ==
  /\ handler.pc # "calling"
  /\ handler' \in Handlers /\ handler'.pc \in {"close body", "cancel", "returned"}
  /\ handler'.buffer = <<>>
  /\ pipe' \in Pipes /\ (pipe'.reader = "closed" => handler'.pc \in {"cancel", "returned"})
  /\ ctx' \in {"live", "deadline", "canceled"}
  /\ handler'.pc = "returned" => ctx' # "live"
  /\ UNCHANGED <<bridge, sent, taken, upstream, translator, client>>

LEMMA HandlerStep ==
  ASSUME TypeOK, Shape, HandlerSteps
  PROVE  ReadPipe \/ ReadBody \/ Leaves
  <1> USE DEF Handlers, Pipes, Leaves
  <1>1. handler \in Handlers /\ pipe \in Pipes /\ ctx \in {"live", "deadline", "canceled"}
    BY DEF TypeOK
  <1>2. handler.pc # "write" => handler.buffer = <<>>
    BY DEF Shape
  <1>3. handler.pc \notin {"cancel", "returned"} => pipe.reader # "closed"
    BY DEF Shape
  <1>4. ASSUME ReadPipeEnds \/ ReadBodyEnds PROVE Leaves
    BY <1>1, <1>2, <1>3, <1>4 DEF ReadPipeEnds, ReadBodyEnds
  <1>5. ASSUME WriteClientFails PROVE Leaves
    BY <1>1, <1>2, <1>3, <1>5, EmptyChunks DEF WriteClientFails
  <1>6. ASSUME CloseBody PROVE Leaves
    BY <1>1, <1>2, <1>6 DEF CloseBody
  <1>7. ASSUME CancelAndReturn PROVE Leaves
    BY <1>1, <1>2, <1>7 DEF CancelAndReturn
  <1> QED
    BY <1>4, <1>5, <1>6, <1>7 DEF HandlerSteps

(* The chunk the handler takes over and what stays with the goroutine.       *)
LEMMA TakenOver ==
  ASSUME TypeOK, Shape, ReadPipe
  PROVE  /\ handler' \in Handlers /\ handler'.pc = "write" /\ Len(handler'.buffer) = 1
         /\ translator' \in Workers
         /\ translator'.done = translator.done /\ translator'.returns = translator.returns
         /\ IF Len(translator.out) = 2
            THEN translator'.pc = "write" /\ Len(translator'.out) = 1
            ELSE /\ translator'.pc = IF translator.returns THEN "close writer" ELSE "scan"
                 /\ translator'.out = <<>>
         /\ translator.out = handler'.buffer \o translator'.out
         /\ handler.buffer = <<>>
  <1> DEFINE out == translator.out
  <1>1. /\ translator \in Workers /\ translator.pc = "write" /\ out \in Seq(Chunks)
        /\ Len(out) \in 1..2 /\ handler.buffer = <<>>
    BY Fields DEF TypeOK, Shape, Workers, ReadPipe
  <1>2. /\ out # <<>> /\ Head(out) \in Chunks /\ Tail(out) \in Seq(Chunks)
        /\ Len(Tail(out)) = Len(out) - 1 /\ <<Head(out)>> \in Seq(Chunks)
        /\ Len(<<Head(out)>>) = 1
    <2>1. out # <<>>
      BY <1>1
    <2> QED
      BY <1>1, <2>1, HeadTailProperties, OneChunk
  <1>3. out = <<Head(out)>> \o Tail(out)
    <2>1. /\ SubSeq(out, 1, Len(out)) = out
          /\ SubSeq(out, 1, Len(out)) = <<out[1]>> \o SubSeq(out, 2, Len(out))
      BY <1>1, SubSeqFull, SubSeqRecursiveFirst
    <2>2. Tail(out) = SubSeq(out, 2, Len(out)) /\ Head(out) = out[1]
      BY <1>1, <1>2, TailIsSubSeq
    <2> QED
      BY <2>1, <2>2
  <1>4. Len(out) = 1 => Tail(out) = <<>>
    <2> SUFFICES ASSUME Len(out) = 1
                 PROVE  Tail(out) = <<>>
      OBVIOUS
    <2>1. Len(Tail(out)) = 0
      BY <1>1, <1>2
    <2> QED
      BY <1>2, <2>1, EmptySeq
  <1>5. /\ handler' = [pc |-> "write", buffer |-> <<Head(out)>>]
        /\ translator' = [translator EXCEPT
              !.out = Tail(@),
              !.pc  = IF Len(out) > 1 THEN "write"
                      ELSE IF translator.returns THEN "close writer" ELSE "scan"]
    BY DEF ReadPipe
  <1>6. /\ handler' \in Handlers /\ handler'.pc = "write" /\ handler'.buffer = <<Head(out)>>
        /\ translator' \in Workers
        /\ translator'.done = translator.done /\ translator'.returns = translator.returns
        /\ translator'.out = Tail(out)
        /\ translator'.pc = IF Len(out) > 1 THEN "write"
                            ELSE IF translator.returns THEN "close writer" ELSE "scan"
    BY <1>1, <1>2, <1>5 DEF Handlers, Workers
  <1>7. out = handler'.buffer \o translator'.out /\ Len(handler'.buffer) = 1
    BY <1>2, <1>3, <1>6
  <1>8. IF Len(out) = 2
        THEN translator'.pc = "write" /\ Len(translator'.out) = 1
        ELSE /\ translator'.pc = IF translator.returns THEN "close writer" ELSE "scan"
             /\ translator'.out = <<>>
    <2>1. Len(out) = 1 \/ Len(out) = 2
      BY <1>1
    <2>2. ~(1 > 1) /\ 2 > 1 /\ 2 - 1 = 1
      OBVIOUS
    <2>3. CASE Len(out) = 1
      BY <1>4, <1>6, <2>2, <2>3
    <2>4. CASE Len(out) = 2
      BY <1>2, <1>6, <2>2, <2>4
    <2> QED
      BY <2>1, <2>3, <2>4
  <1> QED
    BY <1>1, <1>6, <1>7, <1>8

-----------------------------------------------------------------------------
LEMMA InitInvariant == Init => IInv
  <1> SUFFICES ASSUME Init
               PROVE  IInv
    OBVIOUS
  <1> USE EmptyChunks
  <1>1. /\ <<>> \in Seq(Lines) /\ Len(<<>>) = 0 /\ DOMAIN sent = {}
    BY EmptySeq DEF Init
  <1>2. TypeOK
    BY <1>1, MaxLinesAssumption DEF Init, TypeOK, Goroutine, Workers, Pipes, Handlers, Clients
  <1>3. Shape /\ Protocol
    BY <1>1 DEF Init, Shape, Protocol, Goroutine
  <1>4. Pieces(taken) = {}
    BY DEF Init, Pieces
  <1>5. /\ client.got = <<>> /\ handler.buffer = <<>> /\ translator.out = <<>>
        /\ handler.pc = "calling" /\ ~translator.done /\ Len(client.got) = 0
    BY <1>1 DEF Init, Goroutine
  <1>6. NothingLost
    BY <1>4, <1>5 DEF NothingLost
  <1>7. Endings /\ PassedOn
    BY <1>1, <1>4, <1>5, Fields, <1>2 DEF Endings, PassedOn, DoneMade, Flowing, ToldDone, Ends
  <1> QED
    BY <1>2, <1>3, <1>6, <1>7 DEF IInv

LEMMA TypePreserved == TypeOK /\ Shape /\ [Next]_vars => TypeOK'
  <1> SUFFICES ASSUME TypeOK, Shape, [Next]_vars
               PROVE  TypeOK'
    OBVIOUS
  <1>1. CASE TranslatorSteps
    <2>1. /\ Translating /\ (taken' = taken \/ Reads)
          /\ translator' \in Workers /\ pipe' \in Pipes
      BY <1>1, TranslatorStep DEF Skips, Makes, Stops, TypeOK
    <2>2. taken' \in 0..Len(sent)
      BY <2>1, Fields DEF Reads
    <2> QED
      BY <2>1, <2>2 DEF TypeOK, Translating
  <1>2. CASE ReadPipe
    BY <1>2, TakenOver DEF ReadPipe, TypeOK
  <1>3. CASE ReadBody
    <2>1. Chunk("raw", taken + 1) \in Chunks
      BY NewChunks
    <2>2. <<Chunk("raw", taken + 1)>> \in Seq(Chunks)
      BY <2>1, OneChunk
    <2>3. /\ handler' = [pc |-> "write", buffer |-> <<Chunk("raw", taken + 1)>>]
          /\ taken' \in 0..Len(sent)
          /\ UNCHANGED <<bridge, sent, upstream, ctx, translator, pipe, client>>
      BY <1>3, Fields DEF ReadBody
    <2>4. handler' \in Handlers
      BY <2>2, <2>3 DEF Handlers
    <2> QED
      BY <2>3, <2>4 DEF TypeOK
  <1>4. CASE Leaves
    BY <1>4 DEF Leaves, TypeOK
  <1>5. CASE WriteClient
    <2>1. client.got \o handler.buffer \in Seq(Chunks)
      BY Joined, Fields
    <2>2. client' \in Clients
      BY <1>5, <2>1 DEF WriteClient, TypeOK, Clients
    <2>3. handler' \in Handlers
      BY <1>5, EmptyChunks DEF WriteClient, Handlers
    <2> QED
      BY <1>5, <2>2, <2>3 DEF WriteClient, TypeOK
  <1>6. CASE UpstreamAnswers
    <2>1. /\ client' \in Clients /\ handler' \in Handlers
          /\ translator' \in Workers /\ ctx' \in {"live", "deadline", "canceled"}
      BY <1>6 DEF UpstreamAnswers, Respond, TypeOK, Clients, Handlers, Workers
    <2> QED
      BY <1>6, <2>1 DEF UpstreamAnswers, TypeOK
  <1>7. CASE UpstreamRefuses
    <2>1. /\ client' \in Clients /\ handler' \in Handlers
          /\ translator' \in Workers /\ ctx' \in {"live", "deadline", "canceled"}
      BY <1>7 DEF UpstreamRefuses, Respond, TypeOK, Clients, Handlers, Workers
    <2> QED
      BY <1>7, <2>1 DEF UpstreamRefuses, TypeOK
  <1>8. CASE CallFails
    <2>1. /\ client' \in Clients /\ handler' \in Handlers
          /\ translator' \in Workers /\ ctx' \in {"live", "deadline", "canceled"}
      BY <1>8 DEF CallFails, Respond, TypeOK, Clients, Handlers, Workers
    <2> QED
      BY <1>8, <2>1 DEF CallFails, TypeOK
  <1>9. ASSUME NEW line \in Lines, UpstreamSends(line)
        PROVE  TypeOK'
    <2>1. sent' = Append(sent, line) /\ Len(sent) < MaxLines
      BY <1>9 DEF UpstreamSends
    <2>2. sent' \in Seq(Lines) /\ Len(sent') = Len(sent) + 1
      BY <2>1, Fields
    <2>3. Len(sent') <= MaxLines /\ taken \in 0..Len(sent')
      BY <2>1, <2>2, Fields, MaxLinesAssumption
    <2> QED
      BY <1>9, <2>2, <2>3 DEF UpstreamSends, TypeOK
  <1>10. CASE UpstreamStops \/ DeadlinePasses
    BY <1>10 DEF UpstreamStops, DeadlinePasses, TypeOK
  <1>11. CASE ClientLeaves
    <2>1. client' \in Clients /\ ctx' \in {"live", "deadline", "canceled"}
      BY <1>11 DEF ClientLeaves, TypeOK, Clients
    <2> QED
      BY <1>11, <2>1 DEF ClientLeaves, TypeOK
  <1>12. CASE UNCHANGED vars
    BY <1>12 DEF vars, TypeOK
  <1> QED
    BY <1>1, <1>2, <1>3, <1>4, <1>5, <1>6, <1>7, <1>8, <1>9, <1>10, <1>11, <1>12, HandlerStep
    DEF Next, Environment

LEMMA ShapePreserved == TypeOK /\ Shape /\ [Next]_vars => Shape'
  <1> SUFFICES ASSUME TypeOK, Shape, [Next]_vars
               PROVE  Shape'
    OBVIOUS
  <1> USE EmptyChunks
  <1>1. CASE TranslatorSteps
    <2>1. /\ Translating /\ bridge # "direct" /\ handler.pc # "calling"
          /\ pipe'.reader = pipe.reader
          /\ \/ translator' = translator
             \/ translator'.pc = "write" /\ Len(translator'.out) \in 1..2
             \/ translator'.pc \notin {"scan", "write"} /\ translator'.out = <<>>
      BY <1>1, TranslatorStep DEF Skips, Makes, Stops
    <2> QED
      BY <2>1 DEF Shape, Translating
  <1>2. CASE ReadPipe
    <2>1. /\ handler'.pc = "write" /\ Len(handler'.buffer) = 1
          /\ translator'.pc = "write" => Len(translator'.out) \in 1..2
          /\ translator'.pc # "write" => translator'.out = <<>>
          /\ translator'.pc = "scan" => ~translator'.returns
      <3>1. CASE Len(translator.out) = 2
        BY <1>2, <3>1, TakenOver
      <3>2. CASE Len(translator.out) # 2
        BY <1>2, <3>2, TakenOver
      <3> QED
        BY <3>1, <3>2
    <2>2. /\ handler.pc = "read" /\ bridge # "direct"
          /\ UNCHANGED <<bridge, sent, taken, upstream, ctx, pipe, client>>
      BY <1>2 DEF ReadPipe, Shape, Goroutine
    <2> QED
      BY <2>1, <2>2 DEF Shape
  <1>3. CASE ReadBody
    <2>1. /\ handler.pc = "read" /\ handler'.pc = "write" /\ Len(handler'.buffer) = 1
          /\ UNCHANGED <<bridge, sent, upstream, ctx, translator, pipe, client>>
      BY <1>3, OneChunk, NewChunks DEF ReadBody
    <2> QED
      BY <2>1 DEF Shape
  <1>4. CASE Leaves
    BY <1>4 DEF Leaves, Shape
  <1>5. CASE WriteClient
    BY <1>5 DEF WriteClient, Shape
  <1>6. CASE UpstreamAnswers
    <2>1. /\ handler.pc = "calling" /\ handler'.pc = "read" /\ handler'.buffer = handler.buffer
          /\ translator'.out = translator.out /\ translator'.returns = translator.returns
          /\ translator'.pc # "write"
          /\ bridge = "direct" => translator' = translator
          /\ UNCHANGED <<bridge, pipe>>
      <3>1. translator \in Workers /\ handler \in Handlers
        BY DEF TypeOK
      <3>2. handler.pc = "calling" /\ translator.pc = "none"
        BY <1>6 DEF UpstreamAnswers, Shape, Goroutine
      <3> QED
        BY <1>6, <3>1, <3>2 DEF UpstreamAnswers, Handlers, Workers
    <2>2. handler.buffer = <<>> /\ translator.out = <<>> /\ ~translator.returns
          /\ pipe.reader # "closed"
      BY <2>1 DEF Shape, Goroutine
    <2> QED
      BY <2>1, <2>2 DEF Shape
  <1>7. CASE UpstreamRefuses
    <2>1. /\ handler.pc = "calling" /\ handler'.pc = "read" /\ handler'.buffer = handler.buffer
          /\ UNCHANGED <<translator, pipe>>
      BY <1>7 DEF UpstreamRefuses, TypeOK, Handlers
    <2> QED
      BY <2>1 DEF Shape
  <1>8. CASE CallFails
    <2>1. /\ handler.pc = "calling" /\ handler'.pc = "returned" /\ handler'.buffer = handler.buffer
          /\ ctx' # "live" /\ UNCHANGED <<bridge, translator, pipe>>
      BY <1>8 DEF CallFails, TypeOK, Handlers
    <2> QED
      BY <2>1 DEF Shape
  <1>9. CASE Environment
    <2>1. /\ UNCHANGED <<bridge, translator, pipe, handler>>
          /\ client'.got = client.got
          /\ handler.pc = "calling" => UNCHANGED <<sent, upstream>>
          /\ ctx # "live" => ctx' # "live"
      BY <1>9, Fields DEF Environment, UpstreamSends, UpstreamStops, DeadlinePasses, ClientLeaves
    <2> QED
      BY <2>1 DEF Shape
  <1>10. CASE UNCHANGED vars
    BY <1>10 DEF vars, Shape
  <1> QED
    BY <1>1, <1>2, <1>3, <1>4, <1>5, <1>6, <1>7, <1>8, <1>9, <1>10, HandlerStep DEF Next

(* The backend sends at the end, and only what may still come.               *)
LEMMA Sending ==
  ASSUME TypeOK, NEW line \in Lines, UpstreamSends(line)
  PROVE  /\ Len(sent') = Len(sent) + 1 /\ sent'[Len(sent) + 1] = line
         /\ DOMAIN sent' = 1..(Len(sent) + 1)
         /\ \A i \in 1..Len(sent) : sent'[i] = sent[i] /\ sent[i] # "[DONE]"
         /\ (\E i \in 1..Len(sent) : sent[i] \in Ending) => line \in {"noise", "[DONE]"}
         /\ upstream = "open"
         /\ UNCHANGED <<bridge, taken, upstream, ctx, translator, pipe, handler, client>>
  <1>1. /\ sent' = Append(sent, line) /\ ~Contains(sent, "[DONE]") /\ upstream = "open"
        /\ \A kind \in Ending : Contains(sent, kind) => line \in {"noise", "[DONE]"}
        /\ UNCHANGED <<bridge, taken, upstream, ctx, translator, pipe, handler, client>>
    BY DEF UpstreamSends
  <1>2. /\ sent' \in Seq(Lines) /\ Len(sent') = Len(sent) + 1 /\ sent'[Len(sent) + 1] = line
        /\ \A i \in 1..Len(sent) : sent'[i] = sent[i]
    BY <1>1, Fields
  <1>3. DOMAIN sent' = 1..(Len(sent) + 1)
    BY <1>2, LenProperties
  <1> QED
    BY <1>1, <1>2, <1>3 DEF Contains, Ending

LEMMA ProtocolPreserved == TypeOK /\ Protocol /\ [Next]_vars => Protocol'
  <1> SUFFICES ASSUME TypeOK, Protocol, [Next]_vars
               PROVE  Protocol'
    OBVIOUS
  <1>1. ASSUME NEW line \in Lines, UpstreamSends(line)
        PROVE  Protocol'
    <2>1. /\ Len(sent') = Len(sent) + 1 /\ DOMAIN sent' = 1..(Len(sent) + 1) /\ Len(sent) \in Nat
          /\ sent'[Len(sent) + 1] = line
          /\ \A i \in 1..Len(sent) : sent'[i] = sent[i] /\ sent[i] # "[DONE]"
          /\ (\E i \in 1..Len(sent) : sent[i] \in Ending) => line \in {"noise", "[DONE]"}
      BY <1>1, Sending, Fields
    <2>2. DOMAIN sent = 1..Len(sent)
      BY Fields
    <2>3. ASSUME NEW i \in DOMAIN sent'
          PROVE  /\ sent'[i] = "[DONE]" => i = Len(sent')
                 /\ sent'[i] \in Ending =>
                      \A j \in DOMAIN sent' : j > i => sent'[j] \in {"noise", "[DONE]"}
      <3>1. i \in 1..Len(sent) \/ i = Len(sent) + 1
        BY <2>1
      <3>2. ASSUME NEW j \in DOMAIN sent', j > i
            PROVE  i \in 1..Len(sent) /\ (j \in 1..Len(sent) \/ j = Len(sent) + 1)
        BY <2>1, <3>2
      <3> QED
        BY <2>1, <2>2, <3>1, <3>2 DEF Protocol
    <2> QED
      BY <2>3 DEF Protocol
  <1>2. ASSUME ~\E line \in Lines : UpstreamSends(line)
        PROVE  sent' = sent
    <2>1. TranslatorSteps => sent' = sent
      BY DEF TranslatorSteps, SkipLine, TranslateLine, RefuseToolCall, RefuseGarbage,
             TranslateDone, ScanEnds, ScanFails, WriteFails, CloseWriter, CloseUpstream, Scan,
             Translating
    <2>2. HandlerSteps => sent' = sent
      BY DEF HandlerSteps, ReadPipe, ReadPipeEnds, ReadBody, ReadBodyEnds, CloseBody,
             CancelAndReturn, WriteClientFails
    <2> QED
      BY <1>2, <2>1, <2>2 DEF Next, Environment, UpstreamStops, DeadlinePasses, ClientLeaves,
         UpstreamAnswers, UpstreamRefuses, CallFails, WriteClient, vars
  <1> QED
    BY <1>1, <1>2 DEF Protocol

-----------------------------------------------------------------------------
(* NothingLost in two parts: what has arrived, and what is on its way.       *)
Beginning ==
  /\ InOrder(client.got) /\ Carried(client.got) \subseteq Pieces(taken)
  /\ \A i \in Pieces(taken), j \in Carried(client.got) : i < j => i \in Carried(client.got)
Whole == InOrder(Stream) /\ Carried(Stream) = Pieces(taken)

LEMMA Parts ==
  /\ NothingLost <=> Beginning /\ (Flowing => Whole)
  /\ NothingLost' <=> Beginning' /\ (Flowing' => Whole')
  BY DEF NothingLost, Beginning, Whole, Flowing, Stream

LEMMA StreamIs ==
  ASSUME TypeOK
  PROVE  /\ Stream \in Seq(Chunks)
         /\ Carried(Stream) =
              Carried(client.got) \cup Carried(handler.buffer) \cup Carried(translator.out)
         /\ Ends(Stream) <=> DoneMade
         /\ Stream = client.got \o (handler.buffer \o translator.out)
  <1> DEFINE first == client.got \o handler.buffer
  <1>1. /\ client.got \in Seq(Chunks) /\ handler.buffer \in Seq(Chunks)
        /\ translator.out \in Seq(Chunks)
    BY Fields
  <1>2. /\ first \in Seq(Chunks)
        /\ Carried(first) = Carried(client.got) \cup Carried(handler.buffer)
        /\ Ends(first) <=> Ends(client.got) \/ Ends(handler.buffer)
    BY <1>1, Joined
  <1>3. Stream = client.got \o (handler.buffer \o translator.out)
    <2>1. \A s, t, u \in Seq(Chunks) : (s \o t) \o u = s \o (t \o u)
      BY ConcatAssociative
    <2> QED
      BY <1>1, <2>1, Zenon DEF Stream
  <1>4. Stream = first \o translator.out
    BY DEF Stream
  <1> HIDE DEF first
  <1>5. /\ Stream \in Seq(Chunks)
        /\ Carried(Stream) = Carried(first) \cup Carried(translator.out)
        /\ Ends(Stream) <=> Ends(first) \/ Ends(translator.out)
    BY <1>1, <1>2, <1>4, Joined
  <1> QED
    BY <1>2, <1>3, <1>5 DEF DoneMade

LEMMA NextPiece ==
  ASSUME TypeOK, Reads, UNCHANGED <<bridge, sent>>
  PROVE  /\ Pieces(taken)' = Pieces(taken) \cup
              IF bridge = "direct" \/ sent[taken + 1] \in {"text", "text+finish"}
              THEN {taken + 1} ELSE {}
         /\ \A i \in Pieces(taken) : i < taken + 1
  <1>1. taken \in Nat /\ taken' = taken + 1
    BY Fields DEF Reads
  <1>2. \A i : i \in 1..(taken + 1) <=> i \in 1..taken \/ i = taken + 1
    BY <1>1
  <1> QED
    BY <1>1, <1>2 DEF Pieces

LEMMA SamePieces ==
  ASSUME UNCHANGED <<bridge, taken>>, \A i \in 1..taken : sent'[i] = sent[i]
  PROVE  Pieces(taken)' = Pieces(taken)
  BY DEF Pieces

(* After the end of the answer no line holds a piece.                        *)
LEMMA NoMore ==
  ASSUME TypeOK, Protocol, EndSaid, bridge # "direct"
  PROVE  /\ Pieces(Len(sent)) = Pieces(taken)
         /\ Reads => sent[taken + 1] \in {"noise", "[DONE]"}
  <1>1. /\ taken \in Nat /\ Len(sent) \in Nat /\ taken <= Len(sent)
        /\ DOMAIN sent = 1..Len(sent)
    BY Fields
  <1>2. CASE upstream = "ended" /\ taken = Len(sent)
    BY <1>1, <1>2 DEF Reads
  <1>3. CASE \E i \in 1..taken : sent[i] \in Ending \cup {"[DONE]"}
    <2>1. PICK i \in 1..taken : sent[i] \in Ending \cup {"[DONE]"}
      BY <1>3
    <2>2. i \in DOMAIN sent /\ i <= taken
      BY <1>1
    <2>3. \A j \in 1..Len(sent) : j > taken => sent[j] \in {"noise", "[DONE]"}
      BY <1>1, <2>1, <2>2 DEF Protocol
    <2>4. Reads => taken + 1 \in 1..Len(sent)
      BY <1>1 DEF Reads
    <2>5. \A j \in 1..Len(sent) : j \in Pieces(Len(sent)) => j \in 1..taken
      BY <1>1, <2>3 DEF Pieces
    <2>6. \A j \in 1..taken : j \in 1..Len(sent)
      BY <1>1
    <2>7. Pieces(Len(sent)) = Pieces(taken)
      BY <2>5, <2>6 DEF Pieces
    <2> QED
      BY <1>1, <2>3, <2>4, <2>7
  <1> QED
    BY <1>2, <1>3 DEF EndSaid

(* A step that reads the next line keeps what has arrived a beginning.       *)
LEMMA BeginningPreserved ==
  ASSUME TypeOK, Beginning, UNCHANGED <<bridge, sent>>, client'.got = client.got,
         Reads \/ taken' = taken
  PROVE  Beginning'
  <1>1. CASE Reads
    <2>1. /\ \A i \in Pieces(taken) : i \in Pieces(taken)'
          /\ \A i \in Pieces(taken)' : i \in Pieces(taken) \/ i = taken + 1
          /\ \A i \in Pieces(taken) : i < taken + 1
      BY <1>1, NextPiece
    <2>2. taken \in Nat /\ \A j \in Carried(client.got) : j \in Nat /\ j < taken + 1
      BY <2>1, Fields, CarriedAre DEF Beginning
    <2>3. \A i \in Pieces(taken)', j \in Carried(client.got) : i < j => i \in Pieces(taken)
      BY <2>1, <2>2
    <2>4. Carried(client'.got) = Carried(client.got) /\ InOrder(client'.got)
      BY DEF Beginning
    <2> QED
      BY <2>1, <2>3, <2>4 DEF Beginning
  <1>2. CASE taken' = taken
    BY <1>2, SamePieces DEF Beginning
  <1> QED
    BY <1>1, <1>2

(* The goroutine adds to the stream what the line it read holds.             *)
LEMMA TranslatorKeeps ==
  ASSUME IInv, TranslatorSteps
  PROVE  NothingLost' /\ Endings' /\ PassedOn'
  <1>1. TypeOK /\ Shape /\ Protocol /\ NothingLost /\ Endings
    BY DEF IInv
  <1>2. /\ UNCHANGED <<bridge, sent, upstream, ctx, handler, client>>
        /\ bridge # "direct"
        /\ \/ translator.pc = "scan" /\ Skips
           \/ translator.pc = "scan" /\ \E new \in Seq(Chunks) : Makes(new)
           \/ Stops
    BY <1>1, TranslatorStep DEF Translating
  <1>3. PassedOn'
    BY <1>2 DEF PassedOn
  <1>4. Reads \/ taken' = taken
    BY <1>2 DEF Skips, Makes, Stops
  <1>5. Beginning'
    BY <1>1, <1>2, <1>4, BeginningPreserved, Parts
  <1>6. Flowing' = Flowing
    BY <1>2 DEF Flowing
  <1>7. /\ DoneLast(client'.got)
        /\ Flowing => Whole /\ DoneLast(Stream)
        /\ ToldDone' <=> ToldDone
    BY <1>1, <1>2, Parts DEF Endings, ToldDone
  <1>8. ToldDone => DoneMade
    BY DEF ToldDone, DoneMade, Ends
  <1>9. ToldDone' => Carried(client'.got) = Pieces(taken)'
    <2> SUFFICES ASSUME ToldDone
                 PROVE  Carried(client.got) = Pieces(taken)'
      BY <1>2, <1>7
    <2>1. Carried(client.got) = Pieces(taken) /\ EndSaid
      BY <1>1, <1>8 DEF Endings
    <2>2. CASE Reads
      BY <1>1, <1>2, <2>1, <2>2, NoMore, NextPiece
    <2>3. CASE taken' = taken
      BY <1>2, <2>1, <2>3, SamePieces
    <2> QED
      BY <1>4, <2>2, <2>3
  <1>10. EndSaid => EndSaid'
    <2>1. CASE Reads
      <3>1. /\ taken \in Nat /\ taken' = taken + 1 /\ sent' = sent /\ taken < Len(sent)
        BY <1>1, <1>2, <2>1, Fields DEF Reads
      <3>2. \A i \in 1..taken : i \in 1..(taken + 1)
        BY <3>1
      <3> QED
        BY <3>1, <3>2 DEF EndSaid
    <2>2. CASE taken' = taken
      BY <1>2, <2>2 DEF EndSaid
    <2> QED
      BY <1>4, <2>1, <2>2
  <1>11. (\E i \in 1..taken : sent[i] \in Ending) => \E i \in 1..taken' : sent'[i] \in Ending
    <2>1. taken \in Nat /\ (taken' = taken \/ taken' = taken + 1) /\ sent' = sent
      BY <1>1, <1>2, <1>4, Fields DEF Reads
    <2>2. \A i \in 1..taken : i \in 1..taken'
      BY <2>1
    <2> QED
      BY <2>1, <2>2
  <1>12. CASE translator.pc = "scan" /\ Skips
    <2>1. /\ Reads /\ sent[taken + 1] \notin {"text", "text+finish"} /\ translator' = translator
      BY <1>12 DEF Skips
    <2>2. Pieces(taken)' = Pieces(taken)
      BY <1>1, <1>2, <2>1, NextPiece
    <2>3. Stream' = Stream /\ (DoneMade' <=> DoneMade)
      BY <1>2, <2>1 DEF Stream, DoneMade
    <2>4. Flowing' => Whole'
      BY <1>6, <1>7, <2>2, <2>3 DEF Whole
    <2>5. Endings'
      BY <1>1, <1>2, <1>6, <1>7, <1>9, <1>10, <1>11, <2>1, <2>3 DEF Endings
    <2> QED
      BY <1>3, <1>5, <2>4, <2>5, Parts
  <1>13. CASE Stops
    <2>1. /\ translator'.pc \notin {"scan", "write"}
          /\ translator'.out = <<>> /\ translator'.done = translator.done
          /\ Flowing => translator.out = <<>>
          /\ taken' = taken \/ (Reads /\ sent[taken + 1] \notin {"text", "text+finish"})
      BY <1>13 DEF Stops
    <2>2. Pieces(taken)' = Pieces(taken)
      BY <1>1, <1>2, <2>1, NextPiece, SamePieces
    <2>3. DoneMade' => DoneMade
      BY <1>2, <2>1, EmptyChunks DEF DoneMade
    <2>4. Flowing => Stream' = Stream
      BY <1>2, <2>1 DEF Stream
    <2>5. Flowing' => Whole' /\ DoneLast(Stream')
      BY <1>6, <1>7, <2>2, <2>4 DEF Whole
    <2>6. Endings'
      BY <1>1, <1>2, <1>7, <1>9, <1>10, <1>11, <2>1, <2>3, <2>5 DEF Endings
    <2> QED
      BY <1>3, <1>5, <2>5, <2>6, Parts
  <1>14. ASSUME NEW new \in Seq(Chunks), translator.pc = "scan", Makes(new)
         PROVE  NothingLost' /\ Endings'
    <2>1. /\ translator.out = <<>> /\ ~translator.returns
      BY <1>1, <1>14 DEF Shape
    <2>2. /\ translator'.out = new /\ new # <<>> /\ InOrder(new) /\ DoneLast(new)
          /\ translator'.done <=> translator.done \/ (Reads /\ sent[taken + 1] \in Ending)
      <3>1. Len(new) # 0
        <4>1. Len(new) \in 1..2
          BY <1>14, Zenon DEF Makes
        <4> QED
          BY <4>1
      <3> QED
        BY <1>14, <3>1 DEF Makes
    <2>3. Stream' = Stream \o new
      <3>1. Stream = client.got \o handler.buffer
        BY <1>1, <2>1, Fields, Joined, ConcatEmptySeq DEF Stream
      <3> QED
        BY <1>2, <2>2, <3>1 DEF Stream
    <2>4. Stream \in Seq(Chunks) /\ (Ends(Stream) <=> DoneMade)
      BY <1>1, StreamIs
    <2>5. DoneMade => translator.done
      BY <1>1, <1>14, <2>1 DEF Endings
    <2>6. ~translator.done
      <3> SUFFICES ASSUME translator.done
                   PROVE  FALSE
        OBVIOUS
      <3>1. EndSaid
        BY <1>1 DEF Endings, EndSaid
      <3>2. Reads => sent[taken + 1] \in {"noise", "[DONE]"}
        BY <1>1, <1>2, <3>1, NoMore
      <3> QED
        BY <1>14, <3>2 DEF Makes
    <2>7. ~translator.done /\ ~DoneMade
      BY <2>5, <2>6
    <2>8. Flowing' => Whole'
      <3> SUFFICES ASSUME Flowing
                   PROVE  Whole'
        BY <1>6
      <3>1. InOrder(Stream) /\ Carried(Stream) = Pieces(taken)
        BY <1>7 DEF Whole
      <3>2. /\ Carried(Stream') = Carried(Stream) \cup Carried(new)
            /\ InOrder(Stream') <=>
                 InOrder(Stream) /\ InOrder(new)
                 /\ \A i \in Carried(Stream), j \in Carried(new) : i < j
        BY <2>3, <2>4, Joined
      <3>3. CASE Reads
        <4>1. Carried(new) = IF sent[taken + 1] \in {"text", "text+finish"} THEN {taken + 1} ELSE {}
          BY <1>14, <3>3 DEF Makes, Reads
        <4> QED
          BY <1>1, <1>2, <2>2, <3>1, <3>2, <3>3, <4>1, NextPiece DEF Whole
      <3>4. CASE ~Reads
        <4>1. Carried(new) = {} /\ taken' = taken
          BY <1>14, <3>4 DEF Makes
        <4> QED
          BY <1>2, <2>2, <3>1, <3>2, <4>1, SamePieces DEF Whole
      <3> QED
        BY <3>3, <3>4
    <2>9. DoneLast(Stream')
      BY <2>2, <2>3, <2>4, <2>7, Joined
    <2>10. DoneMade' => Ends(new)
      BY <1>2, <2>2, <2>7 DEF DoneMade
    <2>11. Ends(new) => EndSaid' /\ (translator'.done \/ translator'.returns)
      <3> SUFFICES ASSUME Ends(new)
                   PROVE  EndSaid' /\ (translator'.done \/ translator'.returns)
        OBVIOUS
      <3>1. CASE Reads
        <4>1. /\ sent[taken + 1] \in Ending \cup {"[DONE]"}
              /\ sent[taken + 1] = "[DONE]" => translator'.returns
          BY <1>14, <3>1 DEF Makes, Reads, AtEnd
        <4>2. taken' = taken + 1 /\ taken + 1 \in 1..taken'
          BY <1>1, <3>1, Fields DEF Reads
        <4> QED
          BY <1>2, <2>2, <3>1, <4>1, <4>2 DEF EndSaid
      <3>2. CASE ~Reads
        BY <1>2, <1>14, <3>2 DEF Makes, AtEnd, EndSaid
      <3> QED
        BY <3>1, <3>2
    <2>12. translator'.done => \E i \in 1..taken' : sent'[i] \in Ending
      <3> SUFFICES ASSUME Reads, sent[taken + 1] \in Ending
                   PROVE  \E i \in 1..taken' : sent'[i] \in Ending
        BY <2>2, <2>7
      <3>1. taken' = taken + 1 /\ taken + 1 \in 1..taken'
        BY <1>1, Fields DEF Reads
      <3> QED
        BY <1>2, <3>1
    <2>13. Endings'
      BY <1>2, <1>7, <1>9, <2>9, <2>10, <2>11, <2>12 DEF Endings
    <2> QED
      BY <1>5, <2>8, <2>13, Parts
  <1> QED
    BY <1>2, <1>3, <1>12, <1>13, <1>14

(* The handler only moves the first chunk of the stream.                     *)
LEMMA ReadPipeKeeps ==
  ASSUME IInv, ReadPipe
  PROVE  NothingLost' /\ Endings' /\ PassedOn'
  <1>1. TypeOK /\ TypeOK' /\ Shape /\ NothingLost /\ Endings
    BY TypePreserved DEF IInv, Next, HandlerSteps
  <1>2. /\ handler.pc = "read" /\ translator.pc = "write" /\ bridge # "direct"
        /\ UNCHANGED <<bridge, sent, taken, upstream, ctx, pipe, client>>
    BY <1>1 DEF ReadPipe, Shape, Goroutine
  <1>3. /\ handler'.pc = "write" /\ handler.buffer = <<>>
        /\ translator'.done = translator.done /\ translator'.returns = translator.returns
        /\ translator.out = handler'.buffer \o translator'.out
    BY <1>1, TakenOver
  <1>4. handler'.buffer \in Seq(Chunks) /\ translator'.out \in Seq(Chunks)
    BY <1>1 DEF TypeOK, Handlers, Workers
  <1>5. Stream' = Stream
    <2>1. Stream = client.got \o (<<>> \o translator.out)
      BY <1>1, <1>3, StreamIs
    <2>2. <<>> \o translator.out = translator.out
      BY <1>1, Fields, ConcatEmptySeq
    <2>3. Stream' = client'.got \o (handler'.buffer \o translator'.out)
      <3>1. \A s, t, u \in Seq(Chunks) : (s \o t) \o u = s \o (t \o u)
        BY ConcatAssociative
      <3>2. client'.got \in Seq(Chunks)
        BY <1>1, <1>2, Fields
      <3> QED
        BY <1>4, <3>1, <3>2, Zenon DEF Stream
    <2> QED
      BY <1>2, <1>3, <2>1, <2>2, <2>3, Zenon
  <1>6. DoneMade' <=> DoneMade
    BY <1>2, <1>3, <1>4, EmptyChunks, Joined DEF DoneMade
  <1>7. Pieces(taken)' = Pieces(taken) /\ (ToldDone' <=> ToldDone) /\ (EndSaid' <=> EndSaid)
    BY <1>2 DEF Pieces, ToldDone, EndSaid
  <1>8. Flowing' <=> Flowing
    BY <1>2, <1>3 DEF Flowing
  <1>9. NothingLost'
    BY <1>1, <1>2, <1>5, <1>7, <1>8, Parts DEF Beginning, Whole
  <1>10. Endings'
    BY <1>1, <1>2, <1>3, <1>5, <1>6, <1>7, <1>8 DEF Endings
  <1> QED
    BY <1>2, <1>9, <1>10 DEF PassedOn

LEMMA ReadBodyKeeps ==
  ASSUME IInv, ReadBody
  PROVE  NothingLost' /\ Endings' /\ PassedOn'
  <1> DEFINE new == <<Chunk("raw", taken + 1)>>
  <1>1. TypeOK /\ Shape /\ NothingLost /\ Endings /\ PassedOn
    BY DEF IInv
  <1>2. /\ handler.pc = "read" /\ bridge = "direct" /\ taken < Len(sent) /\ taken' = taken + 1
        /\ handler'.pc = "write" /\ handler'.buffer = new
        /\ UNCHANGED <<bridge, sent, upstream, ctx, translator, pipe, client>>
    BY DEF ReadBody
  <1>3. handler.buffer = <<>> /\ translator.out = <<>> /\ ~translator.done
    BY <1>1, <1>2 DEF Shape, Goroutine, Nothing
  <1>4. /\ new \in Seq(Chunks) /\ Len(new) = 1 /\ InOrder(new) /\ DoneLast(new)
        /\ Carried(new) = {taken + 1} /\ ~Ends(new) /\ new # <<>>
        /\ new[1] = Chunk("raw", taken')
    BY <1>1, <1>2, NewChunks, OneChunk DEF Chunk, Carries
  <1> HIDE DEF new
  <1>5. Stream = client.got /\ Stream' = client.got \o new /\ client.got \in Seq(Chunks)
    <2>1. /\ client.got \in Seq(Chunks) /\ client.got \o <<>> = client.got
          /\ (client.got \o new) \in Seq(Chunks)
          /\ (client.got \o new) \o <<>> = client.got \o new
      BY <1>1, <1>4, Fields, Joined, ConcatEmptySeq
    <2> QED
      BY <1>2, <1>3, <2>1, Zenon DEF Stream
  <1>6. Flowing' <=> Flowing
    BY <1>2 DEF Flowing
  <1>7. /\ Pieces(taken)' = Pieces(taken) \cup {taken + 1}
        /\ \A i \in Pieces(taken) : i < taken + 1
    BY <1>1, <1>2, NextPiece DEF Reads
  <1>8. ~DoneMade /\ ~DoneMade' /\ ~ToldDone /\ ~ToldDone'
    BY <1>1, <1>2, <1>4 DEF Endings, DoneMade, ToldDone, Ends
  <1>9. Flowing' => Whole' /\ DoneLast(Stream')
    <2> SUFFICES ASSUME Flowing
                 PROVE  Whole' /\ DoneLast(Stream')
      BY <1>6
    <2>1. InOrder(client.got) /\ Carried(client.got) = Pieces(taken)
      BY <1>1, <1>5, Parts DEF Whole
    <2>2. /\ Carried(client.got \o new) = Carried(client.got) \cup Carried(new)
          /\ InOrder(client.got \o new) <=>
               InOrder(client.got) /\ InOrder(new)
               /\ \A i \in Carried(client.got), j \in Carried(new) : i < j
          /\ DoneLast(client.got \o new) <=> ~Ends(client.got) /\ DoneLast(new)
      BY <1>4, <1>5, Joined
    <2>3. InOrder(client.got \o new) /\ Carried(client.got \o new) = Pieces(taken)'
      BY <1>4, <1>7, <2>1, <2>2
    <2>4. DoneLast(client.got \o new)
      BY <1>4, <1>8, <2>2 DEF DoneMade
    <2> QED
      BY <1>5, <2>3, <2>4 DEF Whole
  <1>10. Beginning'
    BY <1>1, <1>2, BeginningPreserved, Parts DEF Reads
  <1>11. Endings'
    BY <1>1, <1>2, <1>3, <1>8, <1>9 DEF Endings
  <1>12. PassedOn'
    <2>1. /\ Len(client.got) \in Nat /\ taken \in Nat /\ Len(handler.buffer) = 0
          /\ Len(client.got) <= taken
          /\ \A i \in DOMAIN client.got : client.got[i] = Chunk("raw", i)
          /\ Flowing => Len(client.got) + Len(handler.buffer) = taken
      BY <1>1, <1>2, <1>3, <1>5, Fields, LenProperties, EmptySeq DEF PassedOn
    <2>2. /\ Len(client.got) <= taken'
          /\ Flowing => Len(client.got) + 1 = taken'
      BY <1>2, <2>1
    <2> QED
      BY <1>2, <1>4, <1>6, <2>1, <2>2 DEF PassedOn
  <1> QED
    BY <1>9, <1>10, <1>11, <1>12, Parts

(* The handler stops: what is on its way is dropped.                         *)
LEMMA LeavesKeeps ==
  ASSUME IInv, Leaves
  PROVE  NothingLost' /\ Endings' /\ PassedOn'
  <1>1. NothingLost /\ Endings /\ PassedOn
    BY DEF IInv
  <1>2. /\ UNCHANGED <<bridge, sent, taken, upstream, translator, client>>
        /\ handler'.buffer = <<>> /\ ~Flowing'
    BY DEF Leaves, Flowing
  <1>3. (DoneMade' => DoneMade) /\ (EndSaid' <=> EndSaid) /\ (ToldDone' <=> ToldDone)
        /\ Pieces(taken)' = Pieces(taken)
    BY <1>2, EmptyChunks DEF DoneMade, EndSaid, ToldDone, Pieces
  <1>4. NothingLost'
    BY <1>1, <1>2, <1>3, Parts DEF Beginning
  <1>5. Endings'
    BY <1>1, <1>2, <1>3 DEF Endings
  <1>6. PassedOn'
    BY <1>1, <1>2 DEF PassedOn
  <1> QED
    BY <1>4, <1>5, <1>6

(* The chunk in the handler's buffer reaches the client.                     *)
LEMMA Arrives ==
  ASSUME IInv, WriteClient, client.connected
  PROVE  /\ client'.got = client.got \o handler.buffer /\ client'.got \in Seq(Chunks)
         /\ Stream' = Stream /\ Stream = client'.got \o translator.out
         /\ Flowing /\ Whole /\ DoneLast(Stream)
         /\ Carried(client'.got) = Carried(client.got) \cup Carried(handler.buffer)
         /\ Ends(client'.got) <=> Ends(client.got) \/ Ends(handler.buffer)
         /\ handler.buffer \in Seq(Chunks) /\ Len(handler.buffer) = 1
  <1>1. TypeOK /\ Shape /\ NothingLost /\ Endings
    BY DEF IInv
  <1>2. /\ client' = [client EXCEPT !.got = @ \o handler.buffer]
        /\ handler.pc = "write" /\ handler'.buffer = <<>> /\ translator' = translator
    BY DEF WriteClient, Nothing
  <1>3. /\ client.got \in Seq(Chunks) /\ handler.buffer \in Seq(Chunks)
        /\ translator.out \in Seq(Chunks) /\ Len(handler.buffer) = 1
    BY <1>1, <1>2, Fields DEF Shape
  <1>4. client'.got = client.got \o handler.buffer
    BY <1>1, <1>2 DEF TypeOK, Clients
  <1>5. /\ client'.got \in Seq(Chunks)
        /\ Carried(client'.got) = Carried(client.got) \cup Carried(handler.buffer)
        /\ Ends(client'.got) <=> Ends(client.got) \/ Ends(handler.buffer)
        /\ client'.got \o <<>> = client'.got
    BY <1>3, <1>4, Joined, ConcatEmptySeq
  <1>6. Stream' = Stream /\ Stream = client'.got \o translator.out
    BY <1>2, <1>4, <1>5, Zenon DEF Stream
  <1>7. Flowing
    BY <1>2 DEF Flowing
  <1> QED
    BY <1>1, <1>3, <1>4, <1>5, <1>6, <1>7, Parts DEF Endings

LEMMA WriteClientKeeps ==
  ASSUME IInv, WriteClient
  PROVE  NothingLost' /\ Endings' /\ PassedOn'
  <1>1. TypeOK /\ Shape /\ NothingLost /\ Endings /\ PassedOn
    BY DEF IInv
  <1>2. /\ UNCHANGED <<bridge, sent, taken, upstream, ctx, translator, pipe>>
        /\ handler.pc = "write" /\ handler'.pc = "read" /\ handler'.buffer = <<>>
    BY DEF WriteClient, Nothing
  <1>3. (EndSaid' <=> EndSaid) /\ Pieces(taken)' = Pieces(taken)
    BY <1>2 DEF EndSaid, Pieces
  <1>4. CASE ~client.connected
    <2>1. client' = client /\ ~Flowing'
      BY <1>4 DEF WriteClient, Flowing
    <2>2. (DoneMade' => DoneMade) /\ (ToldDone' <=> ToldDone)
      BY <1>2, <2>1, EmptyChunks DEF DoneMade, ToldDone
    <2>3. NothingLost'
      BY <1>1, <1>3, <2>1, Parts DEF Beginning
    <2>4. Endings'
      BY <1>1, <1>2, <1>3, <2>1, <2>2 DEF Endings
    <2> QED
      BY <1>1, <1>2, <2>1, <2>3, <2>4 DEF PassedOn
  <1>5. CASE client.connected
    <2> DEFINE got == client'.got
               out == translator.out
    <2>1. /\ got = client.got \o handler.buffer /\ got \in Seq(Chunks)
          /\ Stream' = Stream /\ Stream = got \o out
          /\ Flowing /\ Whole /\ DoneLast(Stream)
          /\ Ends(got) <=> Ends(client.got) \/ Ends(handler.buffer)
          /\ handler.buffer \in Seq(Chunks) /\ Len(handler.buffer) = 1
      BY <1>5, Arrives
    <2>2. out \in Seq(Chunks)
      BY <1>1, Fields
    <2> HIDE DEF got, out
    <2>3. /\ InOrder(got) /\ InOrder(out)
          /\ \A i \in Carried(got), j \in Carried(out) : i < j
          /\ Carried(got) \cup Carried(out) = Pieces(taken)
          /\ IF out = <<>> THEN DoneLast(got) ELSE ~Ends(got)
      BY <2>1, <2>2, Joined DEF Whole
    <2>4. Carried(got) \subseteq Nat /\ Carried(out) \subseteq Nat
      BY <2>1, <2>2, CarriedAre
    <2>5. Beginning'
      <3>1. \A i \in Pieces(taken), j \in Carried(got) : i < j => i \in Carried(got)
        BY <2>3, <2>4
      <3> QED
        BY <1>3, <2>3, <3>1 DEF Beginning, got
    <2>6. NothingLost'
      BY <1>3, <2>1, <2>5, Parts DEF Whole
    <2>7. DoneLast(got)
      BY <2>3 DEF DoneLast, Ends
    <2>8. Ends(got) => Carried(got) = Pieces(taken)
      BY <2>3, EmptyChunks
    <2>9. DoneMade' => DoneMade
      BY <1>2, <2>1, EmptyChunks DEF DoneMade, got
    <2>10. Endings'
      <3>1. DoneLast(client'.got) /\ (ToldDone' => Carried(client'.got) = Pieces(taken)')
        BY <1>3, <2>7, <2>8 DEF ToldDone, Ends, got
      <3> QED
        BY <1>1, <1>2, <1>3, <2>1, <2>9, <3>1 DEF Endings
    <2>11. PassedOn'
      <3> SUFFICES ASSUME bridge = "direct"
                   PROVE  PassedOn'
        BY <1>2 DEF PassedOn
      <3>1. /\ Len(client.got) \in Nat /\ taken \in Nat /\ client.got \in Seq(Chunks)
            /\ DOMAIN client.got = 1..Len(client.got) /\ DOMAIN got = 1..Len(got)
        BY <1>1, <2>1, Fields, LenProperties
      <3>2. /\ \A i \in 1..Len(client.got) : client.got[i] = Chunk("raw", i)
            /\ Len(client.got) + 1 = taken /\ handler.buffer[1] = Chunk("raw", taken)
        <4>1. handler.buffer # <<>>
          <5>1. Len(handler.buffer) # 0
            BY <2>1
          <5> QED
            BY <5>1
        <4>2. /\ \A i \in DOMAIN client.got : client.got[i] = Chunk("raw", i)
              /\ Len(client.got) + Len(handler.buffer) = taken
              /\ handler.buffer[1] = Chunk("raw", taken)
          BY <1>1, <2>1, <4>1 DEF PassedOn
        <4> QED
          BY <2>1, <3>1, <4>2
      <3>3. /\ Len(got) = Len(client.got) + 1
            /\ \A i \in 1..(Len(client.got) + 1) :
                 got[i] = IF i <= Len(client.got) THEN client.got[i]
                          ELSE handler.buffer[i - Len(client.got)]
        <4>1. LET s == client.got
                  e == handler.buffer
              IN  /\ Len(s \o e) = Len(s) + Len(e)
                  /\ \A i \in 1..(Len(s) + Len(e)) :
                       (s \o e)[i] = IF i <= Len(s) THEN s[i] ELSE e[i - Len(s)]
          BY <2>1, <3>1, ConcatProperties
        <4>2. Len(client.got) + Len(handler.buffer) = Len(client.got) + 1
          BY <2>1
        <4> QED
          BY <2>1, <4>1, <4>2, Zenon
      <3>4. ASSUME NEW i \in 1..Len(got)
            PROVE  got[i] = Chunk("raw", i)
        <4>1. i \in 1..Len(client.got) \/ (i = taken /\ ~(i <= Len(client.got)) /\ i - Len(client.got) = 1)
          BY <3>1, <3>2, <3>3
        <4> QED
          BY <3>1, <3>2, <3>3, <4>1
      <3>5. Len(got) = taken
        BY <3>2, <3>3
      <3> QED
        BY <1>2, <3>1, <3>4, <3>5, EmptySeq DEF PassedOn, got
    <2> QED
      BY <2>6, <2>10, <2>11
  <1> QED
    BY <1>4, <1>5

(* The call returns, or does not: nothing has been sent yet.                 *)
LEMMA CallKeeps ==
  ASSUME IInv, UpstreamAnswers \/ UpstreamRefuses \/ CallFails
  PROVE  NothingLost' /\ Endings' /\ PassedOn'
  <1>1. TypeOK /\ Shape /\ TypeOK'
    BY TypePreserved DEF IInv, Next
  <1>2. /\ handler.pc = "calling" /\ sent' = sent /\ taken' = taken
        /\ translator'.out = translator.out /\ translator'.done = translator.done
        /\ handler'.buffer = handler.buffer /\ client'.got = client.got
    BY <1>1 DEF UpstreamAnswers, UpstreamRefuses, CallFails, Respond, TypeOK, Workers, Handlers,
                Clients
  <1>3. /\ client'.got = <<>> /\ handler'.buffer = <<>> /\ translator'.out = <<>>
        /\ ~translator'.done /\ sent = <<>>
    BY <1>1, <1>2 DEF Shape, Goroutine, Nothing
  <1>4. taken = 0
    BY <1>1, <1>3, EmptySeq DEF TypeOK
  <1>5. Stream' = <<>>
    BY <1>3, EmptyChunks, ConcatEmptySeq DEF Stream
  <1>6. Pieces(taken)' = {}
    BY <1>2, <1>4 DEF Pieces
  <1>7. Beginning' /\ Whole'
    BY <1>3, <1>5, <1>6, EmptyChunks DEF Beginning, Whole
  <1>8. ~DoneMade' /\ ~ToldDone' /\ DoneLast(Stream') /\ DoneLast(client'.got)
    BY <1>3, <1>5, EmptyChunks DEF DoneMade, ToldDone, Ends
  <1>9. Endings'
    BY <1>3, <1>8 DEF Endings
  <1>10. PassedOn'
    BY <1>2, <1>3, <1>4, EmptySeq, DOMAIN <<>> = {} DEF PassedOn
  <1> QED
    BY <1>7, <1>9, <1>10, Parts

LEMMA EnvironmentKeeps ==
  ASSUME IInv, Environment \/ UNCHANGED vars
  PROVE  NothingLost' /\ Endings' /\ PassedOn'
  <1>1. TypeOK /\ NothingLost /\ Endings /\ PassedOn
    BY DEF IInv
  <1>2. /\ UNCHANGED <<bridge, taken, translator, handler>> /\ client'.got = client.got
        /\ client'.connected => client.connected
        /\ taken \in Nat
    BY <1>1, Fields
    DEF Environment, UpstreamSends, UpstreamStops, DeadlinePasses, ClientLeaves, vars
  <1>3. /\ \A i \in 1..taken : sent'[i] = sent[i]
        /\ EndSaid => EndSaid'
    <2>1. ASSUME NEW line \in Lines, UpstreamSends(line)
          PROVE  (\A i \in 1..taken : sent'[i] = sent[i]) /\ (EndSaid => EndSaid')
      <3>1. /\ \A i \in 1..Len(sent) : sent'[i] = sent[i]
            /\ upstream = "open"
        BY <1>1, <2>1, Sending
      <3>2. \A i \in 1..taken : i \in 1..Len(sent)
        BY <1>1, Fields
      <3> QED
        BY <1>2, <3>1, <3>2 DEF EndSaid
    <2>2. CASE UpstreamStops \/ DeadlinePasses \/ ClientLeaves \/ UNCHANGED vars
      <3>1. sent' = sent /\ (upstream = "ended" => upstream' = "ended")
        BY <2>2 DEF UpstreamStops, DeadlinePasses, ClientLeaves, vars
      <3> QED
        BY <1>2, <3>1 DEF EndSaid
    <2> QED
      BY <2>1, <2>2 DEF Environment
  <1>4. Pieces(taken)' = Pieces(taken)
    BY <1>2, <1>3, SamePieces
  <1>5. Stream' = Stream /\ (DoneMade' <=> DoneMade) /\ (ToldDone' <=> ToldDone)
        /\ (Flowing' => Flowing)
    BY <1>2 DEF Stream, DoneMade, ToldDone, Flowing
  <1>6. NothingLost'
    BY <1>1, <1>2, <1>4, <1>5, Parts DEF Beginning, Whole
  <1>7. Endings'
    BY <1>1, <1>2, <1>3, <1>4, <1>5 DEF Endings
  <1>8. PassedOn'
    BY <1>1, <1>2, <1>5 DEF PassedOn
  <1> QED
    BY <1>6, <1>7, <1>8

LEMMA NextInvariant == IInv /\ [Next]_vars => IInv'
  <1> SUFFICES ASSUME IInv, [Next]_vars
               PROVE  IInv'
    OBVIOUS
  <1>1. TypeOK' /\ Shape' /\ Protocol'
    BY TypePreserved, ShapePreserved, ProtocolPreserved DEF IInv
  <1>2. TypeOK /\ Shape
    BY DEF IInv
  <1>3. NothingLost' /\ Endings' /\ PassedOn'
    BY <1>2, HandlerStep, TranslatorKeeps, ReadPipeKeeps, ReadBodyKeeps, LeavesKeeps,
       WriteClientKeeps, CallKeeps, EnvironmentKeeps DEF Next
  <1> QED
    BY <1>1, <1>3 DEF IInv

-----------------------------------------------------------------------------
(* The inductive invariant holds in every reachable state.                   *)
THEOREM Invariant == Spec => []IInv
  <1> QED
    BY InitInvariant, NextInvariant, PTL DEF Spec

(* Every variable keeps its type, however many lines the backend sends and   *)
(* in whatever order the five participants move.                             *)
THEOREM TypeCorrect == Spec => []TypeOK
  <1>1. IInv => TypeOK
    BY DEF IInv
  <1> QED
    BY <1>1, Invariant, PTL

(* Between the backend's body and the client no piece of the answer is lost, *)
(* repeated or overtaken.                                                    *)
THEOREM StreamIsWhole == Spec => []NothingLost
  <1>1. IInv => NothingLost
    BY DEF IInv
  <1> QED
    BY <1>1, Invariant, PTL

(* Told done, the client has the whole answer and hears nothing more.        *)
LEMMA DoneFollows == IInv => DoneMeansComplete /\ CutIsNotDone
  <1> SUFFICES ASSUME IInv, ToldDone
               PROVE  DoneMeansComplete /\ CutIsNotDone
    BY DEF DoneMeansComplete, CutIsNotDone
  <1>1. TypeOK /\ Protocol /\ EndSaid /\ bridge # "direct"
        /\ DoneLast(client.got) /\ Carried(client.got) = Pieces(taken)
    BY DEF IInv, Endings, ToldDone, DoneMade, Ends
  <1>2. Pieces(Len(sent)) = Pieces(taken)
    BY <1>1, NoMore
  <1> QED
    BY <1>1, <1>2 DEF DoneMeansComplete, CutIsNotDone, DoneLast, EndSaid

(* A client that is told done has every piece the backend ever sent, was     *)
(* told once and receives nothing after it.                                  *)
THEOREM DoneIsComplete == Spec => []DoneMeansComplete
  <1> QED
    BY DoneFollows, Invariant, PTL

(* A stream that was cut is never presented as the end of the answer.        *)
THEOREM CutIsToldApart == Spec => []CutIsNotDone
  <1> QED
    BY DoneFollows, Invariant, PTL

-----------------------------------------------------------------------------
(* The refinement of StreamRelay.                                            *)
Offered == Pieces(Len(sent))
Said    == upstream = "ended" \/
             (bridge # "direct" /\ \E kind \in Ending \cup {"[DONE]"} : Contains(sent, kind))
Got     == Carried(client.got)
Finish  == IF handler.pc # "returned" THEN "open"
           ELSE IF IF bridge = "direct" THEN AtEnd /\ Len(client.got) = taken
                                       ELSE ToldDone
                THEN "complete" ELSE "cut"

LEMMA Relayed ==
  /\ Relay!Init <=> Offered = {} /\ Said = FALSE /\ Got = {} /\ Finish = "open"
  /\ Relay!Produce <=>
       /\ ~Said
       /\ \/ \E piece \in 1..MaxLines :
               (\A p \in Offered : p < piece) /\ Offered' = Offered \cup {piece}
          \/ Offered' = Offered
       /\ Said' \in BOOLEAN
       /\ UNCHANGED <<Got, Finish>>
  /\ Relay!Deliver <=>
       /\ Finish = "open"
       /\ \E piece \in Offered :
            /\ \A p \in Got : p < piece
            /\ \A p \in Offered \ Got : piece <= p
            /\ Got' = Got \cup {piece}
       /\ UNCHANGED <<Offered, Said, Finish>>
  /\ Relay!Complete <=>
       Finish = "open" /\ Said /\ Got = Offered /\ Finish' = "complete"
       /\ UNCHANGED <<Offered, Said, Got>>
  /\ Relay!BreakOff <=> Finish = "open" /\ Finish' = "cut" /\ UNCHANGED <<Offered, Said, Got>>
  /\ UNCHANGED Relay!vars <=> UNCHANGED <<Offered, Said, Got, Finish>>
  BY DEF Relay!Init, Relay!Produce, Relay!Deliver, Relay!Complete, Relay!BreakOff, Relay!vars,
         Offered, Said, Got, Finish

LEMMA RelayInit == Init => Relay!Init
  <1> SUFFICES ASSUME Init
               PROVE  Relay!Init
    OBVIOUS
  <1>1. sent = <<>> /\ Len(sent) = 0 /\ upstream = "open" /\ handler.pc = "calling"
        /\ client.got = <<>>
    BY EmptySeq DEF Init
  <1>2. Offered = {} /\ Said = FALSE /\ Got = {} /\ Finish = "open"
    BY <1>1, EmptyChunks DEF Offered, Pieces, Said, Contains, Got, Finish
  <1> QED
    BY <1>2, Relayed

(* The backend adds a line: perhaps a piece, perhaps the end.                *)
LEMMA SendingProduces ==
  ASSUME IInv, NEW line \in Lines, UpstreamSends(line)
  PROVE  Relay!Produce \/ UNCHANGED Relay!vars
  <1>1. TypeOK /\ Shape
    BY DEF IInv
  <1>2. /\ Len(sent') = Len(sent) + 1 /\ sent'[Len(sent) + 1] = line /\ Len(sent) \in Nat
        /\ \A i \in 1..Len(sent) : sent'[i] = sent[i] /\ sent[i] # "[DONE]"
        /\ (\E i \in 1..Len(sent) : sent[i] \in Ending) => line \in {"noise", "[DONE]"}
        /\ upstream = "open"
        /\ UNCHANGED <<bridge, taken, upstream, ctx, translator, pipe, handler, client>>
    BY <1>1, Sending, Fields
  <1>3. handler.pc # "returned" /\ Len(sent) < MaxLines
    BY <1>1 DEF UpstreamSends, Shape
  <1>4. Finish' = Finish /\ Got' = Got
    BY <1>2, <1>3 DEF Finish, Got
  <1>5. \A i : i \in 1..(Len(sent) + 1) <=> i \in 1..Len(sent) \/ i = Len(sent) + 1
    BY <1>2
  <1>6. Offered' = Offered \cup
          IF bridge = "direct" \/ line \in {"text", "text+finish"} THEN {Len(sent) + 1} ELSE {}
    BY <1>2, <1>5 DEF Offered, Pieces
  <1>7. Len(sent) + 1 \in 1..MaxLines /\ \A p \in Offered : p < Len(sent) + 1
    BY <1>2, <1>3, MaxLinesAssumption DEF Offered, Pieces
  <1>8. CASE ~Said
    <2>1. \/ \E piece \in 1..MaxLines :
               (\A p \in Offered : p < piece) /\ Offered' = Offered \cup {piece}
          \/ Offered' = Offered
      BY <1>6, <1>7
    <2>2. Said' \in BOOLEAN
      BY DEF Said
    <2> QED
      BY <1>4, <1>8, <2>1, <2>2, Relayed
  <1>9. CASE Said
    <2>1. bridge # "direct" /\ \E i \in 1..Len(sent) : sent[i] \in Ending
      BY <1>2, <1>9 DEF Said, Contains
    <2>2. Offered' = Offered
      BY <1>2, <1>6, <2>1
    <2>3. PICK i \in 1..Len(sent) : sent[i] \in Ending
      BY <2>1
    <2>4. i \in 1..Len(sent') /\ sent'[i] = sent[i]
      BY <1>2, <2>3
    <2>5. Said'
      BY <1>2, <2>1, <2>3, <2>4 DEF Said, Contains
    <2> QED
      BY <1>4, <1>9, <2>2, <2>5, Relayed
  <1> QED
    BY <1>8, <1>9

(* The chunk that reaches the client is the first piece still missing, or    *)
(* none at all.                                                              *)
LEMMA WritingDelivers ==
  ASSUME IInv, IInv', WriteClient
  PROVE  Relay!Deliver \/ UNCHANGED Relay!vars
  <1>1. TypeOK
    BY DEF IInv
  <1>2. /\ UNCHANGED <<bridge, sent, taken, upstream>>
        /\ handler.pc = "write" /\ handler'.pc = "read"
    BY DEF WriteClient
  <1>3. UNCHANGED <<Offered, Said, Finish>> /\ Finish = "open"
    BY <1>2 DEF Offered, Pieces, Said, Finish
  <1>4. CASE ~client.connected
    BY <1>3, <1>4, Relayed DEF WriteClient, Got
  <1>5. CASE client.connected
    <2> DEFINE chunk == handler.buffer[1]
    <2>1. /\ Got' = Got \cup Carried(handler.buffer)
          /\ handler.buffer \in Seq(Chunks) /\ Len(handler.buffer) = 1
          /\ Stream = (client.got \o handler.buffer) \o translator.out
          /\ client.got \o handler.buffer \in Seq(Chunks) /\ InOrder(Stream)
      BY <1>5, Arrives DEF Got, Whole, Stream
    <2>2. chunk \in Chunks /\ Carried(handler.buffer) = IF Carries(chunk) THEN {chunk.at} ELSE {}
      <3>1. \A i : i \in 1..1 <=> i = 1
        OBVIOUS
      <3>2. chunk \in Chunks
        BY <2>1, <3>1, ElementOfSeq
      <3>3. \A n : n \in Carried(handler.buffer) <=> Carries(chunk) /\ n = chunk.at
        BY <2>1, <3>1, CarriedAre
      <3> QED
        BY <3>2, <3>3
    <2>3. CASE ~Carries(chunk)
      BY <1>3, <2>1, <2>2, <2>3, Relayed
    <2>4. CASE Carries(chunk)
      <3>1. /\ chunk.at \in Carried(handler.buffer) /\ Got' = Got \cup {chunk.at}
            /\ chunk.at \in Nat /\ Got \subseteq Nat
        BY <1>1, <2>1, <2>2, <2>4, Fields, CarriedAre DEF Got
      <3>2. \A p \in Got : p < chunk.at
        <4>1. InOrder(client.got \o handler.buffer)
          BY <1>1, <2>1, Fields, Joined
        <4> QED
          BY <1>1, <2>1, <3>1, <4>1, Fields, Joined DEF Got
      <3>3. /\ Got' \subseteq Pieces(taken)
            /\ \A i \in Pieces(taken), j \in Got' : i < j => i \in Got'
        BY <1>2, Parts DEF IInv, Beginning, Got, Pieces
      <3>4. /\ Pieces(taken) \subseteq Offered
            /\ \A p \in Offered : p \in Nat /\ (p \notin Pieces(taken) => p > taken)
            /\ \A p \in Pieces(taken) : p <= taken
        BY <1>1, Fields DEF Pieces, Offered
      <3>5. chunk.at \in Offered /\ chunk.at \in Pieces(taken) /\ taken \in Nat
        BY <1>1, <3>1, <3>3, <3>4, Fields
      <3>6. \A p \in Offered \ Got : chunk.at <= p
        <4> SUFFICES ASSUME NEW p \in Offered, p \notin Got, p < chunk.at
                     PROVE  FALSE
          BY <3>1, <3>4
        <4>1. p \in Pieces(taken)
          BY <3>4, <3>5
        <4>2. p \in Got'
          BY <3>1, <3>3, <4>1
        <4> QED
          BY <3>1, <4>2
      <3> QED
        BY <1>3, <3>1, <3>2, <3>5, <3>6, Relayed
    <2> QED
      BY <2>3, <2>4
  <1> QED
    BY <1>4, <1>5

(* The handler returns: complete only if the backend said so and everything  *)
(* has arrived.                                                              *)
LEMMA ReturningEnds ==
  ASSUME IInv, CallFails \/ CancelAndReturn
  PROVE  Relay!Complete \/ Relay!BreakOff
  <1>1. TypeOK /\ Shape /\ PassedOn
    BY DEF IInv
  <1>2. /\ UNCHANGED <<bridge, sent, taken, upstream, translator>> /\ client'.got = client.got
        /\ handler.pc # "returned" /\ handler'.pc = "returned"
    BY <1>1 DEF CallFails, CancelAndReturn, Respond, TypeOK, Handlers, Clients
  <1>3. UNCHANGED <<Offered, Said, Got>> /\ Finish = "open"
    BY <1>2 DEF Offered, Pieces, Said, Got, Finish
  <1>4. Finish' = IF IF bridge = "direct" THEN AtEnd /\ Len(client.got) = taken ELSE ToldDone
                  THEN "complete" ELSE "cut"
    BY <1>2 DEF Finish, AtEnd, ToldDone
  <1>5. ASSUME bridge = "direct", AtEnd, Len(client.got) = taken
        PROVE  Said /\ Got = Offered
    <2>1. /\ \A i \in 1..taken : client.got[i] = Chunk("raw", i)
          /\ client.got \in Seq(Chunks) /\ taken = Len(sent)
      <3>1. client.got \in Seq(Chunks) /\ DOMAIN client.got = 1..taken
        BY <1>1, <1>5, Fields, LenProperties
      <3> QED
        BY <1>1, <1>5, <3>1 DEF PassedOn, AtEnd
    <2>2. \A i \in 1..taken : Carries(client.got[i]) /\ client.got[i].at = i
      <3>1. \A i : Carries(Chunk("raw", i)) /\ Chunk("raw", i).at = i
        BY DEF Carries, Chunk
      <3> QED
        BY <2>1, <3>1
    <2>3. \A n : n \in Got <=> n \in 1..taken
      BY <1>5, <2>1, <2>2, CarriedAre DEF Got
    <2> QED
      BY <1>5, <2>1, <2>3 DEF Said, AtEnd, Offered, Pieces
  <1>6. ASSUME bridge # "direct", ToldDone
        PROVE  Said /\ Got = Offered
    <2>1. DoneMeansComplete /\ CutIsNotDone
      BY DoneFollows
    <2>2. \A i \in 1..taken : i \in 1..Len(sent)
      BY <1>1, Fields
    <2> QED
      BY <1>6, <2>1, <2>2 DEF DoneMeansComplete, CutIsNotDone, Said, Got, Offered, Contains
  <1>7. (Said /\ Got = Offered /\ Finish' = "complete") \/ Finish' = "cut"
    BY <1>4, <1>5, <1>6
  <1> QED
    BY <1>3, <1>7, Relayed

(* Everything else happens between backend and client.                       *)
LEMMA OthersStutter ==
  ASSUME IInv, TypeOK',
         TranslatorSteps \/ ReadPipe \/ ReadPipeEnds \/ ReadBody \/ ReadBodyEnds \/ CloseBody
         \/ WriteClientFails \/ UpstreamAnswers \/ DeadlinePasses \/ ClientLeaves
         \/ UNCHANGED vars
  PROVE  UNCHANGED Relay!vars
  <1>1. TypeOK /\ Shape
    BY DEF IInv
  <1>2. /\ UNCHANGED <<bridge, sent, upstream>> /\ client'.got = client.got
        /\ handler'.pc = "returned" <=> handler.pc = "returned"
        /\ handler.pc = "returned" /\ bridge = "direct" => taken' = taken
    <2>1. CASE TranslatorSteps
      BY <1>1, <2>1, TranslatorStep DEF Translating
    <2>2. CASE UpstreamAnswers
      BY <1>1, <2>2 DEF UpstreamAnswers, Respond, TypeOK, Handlers, Clients
    <2>3. CASE DeadlinePasses \/ ClientLeaves \/ UNCHANGED vars
      <3>1. client'.got = client.got
        BY <1>1, <2>3 DEF DeadlinePasses, ClientLeaves, vars, TypeOK, Clients
      <3> QED
        BY <2>3, <3>1 DEF DeadlinePasses, ClientLeaves, vars
    <2>4. CASE ReadPipe \/ ReadBody \/ WriteClientFails
      <3>1. /\ UNCHANGED <<bridge, sent, upstream, client>>
            /\ handler.pc \in {"read", "write"} /\ handler'.pc \in {"write", "close body"}
        <4>1. CASE ReadPipe
          BY <1>1, <4>1, TakenOver DEF ReadPipe
        <4>2. CASE ReadBody
          BY <4>2 DEF ReadBody
        <4>3. CASE WriteClientFails
          BY <4>3 DEF WriteClientFails
        <4> QED
          BY <2>4, <4>1, <4>2, <4>3
      <3> QED
        BY <3>1
    <2>5. CASE ReadPipeEnds \/ ReadBodyEnds \/ CloseBody
      BY <1>1, <2>5 DEF ReadPipeEnds, ReadBodyEnds, CloseBody, TypeOK, Handlers
    <2> QED
      BY <2>1, <2>2, <2>3, <2>4, <2>5
  <1>3. UNCHANGED <<Offered, Said, Got>> /\ (ToldDone' <=> ToldDone)
    BY <1>2 DEF Offered, Pieces, Said, Got, ToldDone
  <1>4. Finish' = Finish
    <2>1. CASE handler.pc # "returned"
      BY <1>2, <2>1 DEF Finish
    <2>2. CASE handler.pc = "returned" /\ bridge = "direct"
      BY <1>2, <2>2 DEF Finish, AtEnd
    <2>3. CASE handler.pc = "returned" /\ bridge # "direct"
      BY <1>2, <1>3, <2>3 DEF Finish
    <2> QED
      BY <2>1, <2>2, <2>3
  <1> QED
    BY <1>3, <1>4, Relayed

LEMMA RelayStep == IInv /\ IInv' /\ [Next]_vars => [Relay!Next]_(Relay!vars)
  <1> SUFFICES ASSUME IInv, IInv', [Next]_vars
               PROVE  Relay!Next \/ UNCHANGED Relay!vars
    OBVIOUS
  <1>1. TypeOK /\ Shape /\ TypeOK'
    BY DEF IInv
  <1>2. CASE UpstreamStops
    <2>1. /\ UNCHANGED <<bridge, sent, taken, handler, client>> /\ handler.pc # "returned"
          /\ upstream = "open"
      BY <1>1, <1>2 DEF UpstreamStops, Shape
    <2>2. UNCHANGED <<Offered, Got, Finish>> /\ Said' \in BOOLEAN /\ (Said => Said')
      BY <2>1 DEF Offered, Pieces, Got, Finish, Said
    <2>3. CASE Said
      <3>1. UNCHANGED Said
        BY <2>2, <2>3 DEF Said
      <3> QED
        BY <2>2, <3>1, Relayed
    <2>4. CASE ~Said
      BY <2>2, <2>4, Relayed DEF Relay!Next
    <2> QED
      BY <2>3, <2>4
  <1>3. CASE UpstreamRefuses
    <2>1. /\ sent = <<>> /\ sent' = sent /\ upstream = "open" /\ upstream' = upstream
          /\ client'.got = client.got /\ handler.pc # "returned" /\ handler'.pc # "returned"
      BY <1>1, <1>3 DEF UpstreamRefuses, Respond, Shape, TypeOK, Handlers, Clients
    <2>2. Len(sent) = 0
      BY <2>1, EmptySeq
    <2>3. UNCHANGED <<Offered, Said, Got, Finish>>
      BY <2>1, <2>2 DEF Offered, Pieces, Said, Contains, Got, Finish
    <2> QED
      BY <2>3, Relayed
  <1> QED
    BY <1>1, <1>2, <1>3, SendingProduces, WritingDelivers, ReturningEnds, OthersStutter
    DEF Next, HandlerSteps, Environment, Relay!Next

(* The bridge implements the relay: every step is one of the abstract relay  *)
(* or leaves it as it was.                                                   *)
THEOREM BridgeIsRelay == Spec => ImplementsRelay
  <1> QED
    BY RelayInit, RelayStep, Invariant, PTL DEF Spec, ImplementsRelay, Relay!Spec
===============================================================================

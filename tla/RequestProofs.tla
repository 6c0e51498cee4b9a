--------------------------- MODULE RequestProofs ---------------------------
(***************************************************************************)
(* Proofs about Request, for every size of buffers, headers and files.     *)
(***************************************************************************)
EXTENDS Request, SequenceTheorems, WellFoundedInduction, TLAPS

(* Before a request is prepared there is no answer, the file it waits for  *)
(* is still to come, and what is closed stays so.                          *)
PhaseInv ==
    /\ place # "turn" /\ place # "mark" => state = "READ" /\ ~queued
    /\ place \in {"lookup", "lock", "load", "mark", "ok"} => response # None
    /\ place = "mark" => state \in {"READ", "WRITE", "ERROR", "killed"}
    /\ queued => /\ response # None /\ answer = None
                 /\ \/ state = "READ" /\ place = "mark"
                    \/ state = "WAITING_FOR_BODY" /\ place = "turn"
    /\ state \in {"CONNECT", "READ"} => answer = None
    /\ state = "CONNECT" => place = "turn"
    /\ state = "gone" => response = None /\ answer = None

Typed == TypeOK /\ capacity > 0

IInv == Typed /\ PhaseInv /\ HandlesOwned /\ SentInOrder

----------------------------------------------------------------------------
(* A step is one of the handlers. *)
LEMMA Cases ==
    ASSUME Next, IInv
    PROVE  \/ Connect \/ ReadBlocks \/ ReadFails \/ ParseCrashes \/ ParseFails \/ Unsupported
           \/ NoFile \/ StatFails \/ MissFails \/ LockWrite \/ OthersFail \/ OthersUnlock \/ Loaded \/ Queue \/ QueueFails
           \/ Mark \/ Ok \/ FileFails \/ WriteBlocks \/ WriteFails \/ WriteUnderflows
           \/ WriteEnds \/ Close
           \/ \E m \in Nat : \E bytes \in [1 .. m -> Byte] : Read(bytes)
           \/ \E n \in Paths : Parse(n)
           \/ \E n \in FileSizes : Fill(n)
           \/ \E n \in Nat, b \in BOOLEAN, l \in Holder : Hit(n, b, l)
           \/ \E n \in Nat, b \in BOOLEAN, l \in Holder : Miss(n, b, l)
           \/ \E n \in FileSizes : FileRead(n)
           \/ \E n \in FileSizes : OthersLoad(n)
           \/ \E n \in Nat \ {0} : n <= HeaderLeft /\ WriteHeader(n)
           \/ \E n \in Nat \ {0} : n <= BodyLeft /\ WriteBody(n)
BY RequestAssumption DEF Next, Receive, Process, Callback, Send, Write, Others, IInv, TypeOK, HeaderLeft, BodyLeft, Answer

----------------------------------------------------------------------------
(* What the helpers make of the response and the answer. *)
LEMMA AddsBody ==
    ASSUME TypeOK, response # None, NEW n \in Nat, AddBody(n)
    PROVE  /\ response' \in Response /\ response' # None
           /\ Body(response') = 1
           /\ answer' = answer /\ used' = n
           /\ handles' = handles + 1 - Body(response)
<1>1. response \in Response
  BY DEF TypeOK
<1>2. response' = [response EXCEPT !.body = TRUE]
  BY DEF AddBody
<1>3. response' \in Response /\ response'.body
  BY <1>1, <1>2 DEF Response
<1>4. response' # None
  BY <1>3, NoneAssumption
<1> QED
  BY <1>3, <1>4 DEF AddBody, Body

LEMMA Prepares ==
    ASSUME NEW b \in BOOLEAN, Prepare(b)
    PROVE  /\ answer' \in Answer /\ answer' # None
           /\ answer'.header_bytes_written = 0 /\ answer'.body_bytes_written = 0
           /\ Body(answer') = IF b THEN 1 ELSE 0
<1>1. answer' = [body |-> b, header_bytes_written |-> 0, body_bytes_written |-> 0]
  BY DEF Prepare
<1>2. answer' \in Answer /\ answer'.body = b
  BY <1>1 DEF Answer
<1>3. answer' # None
  BY <1>2, NoneAssumption
<1> QED
  BY <1>1, <1>2, <1>3 DEF Body

LEMMA PreparesPlain ==
    ASSUME PreparePlain
    PROVE  /\ answer' \in Answer /\ answer' # None
           /\ answer'.header_bytes_written = 0 /\ answer'.body_bytes_written = 0
           /\ Body(answer') = 0
           /\ response' = response /\ handles' = handles - Body(answer)
BY Prepares DEF PreparePlain

LEMMA PreparesOk ==
    ASSUME TypeOK, response # None, PrepareOk
    PROVE  /\ answer' \in Answer /\ answer' # None
           /\ answer'.header_bytes_written = 0 /\ answer'.body_bytes_written = 0
           /\ Body(answer') = Body(response)
           /\ response' \in Response /\ response' # None /\ Body(response') = 0
           /\ handles' = handles - Body(answer)
<1>1. response \in Response
  BY DEF TypeOK
<1>2. response.body \in BOOLEAN
  BY <1>1 DEF Response
<1>3. response' = [response EXCEPT !.body = FALSE]
  BY DEF PrepareOk
<1>4. response' \in Response /\ ~response'.body
  BY <1>1, <1>3 DEF Response
<1>5. response' # None
  BY <1>4, NoneAssumption
<1>6. Prepare(response.body)
  BY DEF PrepareOk
<1>7. /\ answer' \in Answer /\ answer' # None
      /\ answer'.header_bytes_written = 0 /\ answer'.body_bytes_written = 0
      /\ Body(answer') = IF response.body THEN 1 ELSE 0
  BY <1>2, <1>6, Prepares
<1> QED
  BY <1>4, <1>5, <1>7 DEF Body, PrepareOk

(* What a write of n bytes appends. *)
LEMMA Appends ==
    ASSUME TypeOK, SentInOrder, NEW n \in Nat, sent' = sent \o Bytes(Len(sent), n)
    PROVE  /\ sent' \in Seq(Nat) /\ Len(sent') = Len(sent) + n
           /\ \A i \in 1 .. Len(sent') : sent'[i] = i
<1> DEFINE f == Bytes(Len(sent), n)
           k == Len(sent)
<1>1. sent \in Seq(Nat) /\ k \in Nat /\ \A i \in 1 .. k : sent[i] = i
  BY DEF TypeOK, SentInOrder
<1>2. f \in Seq(Nat) /\ Len(f) = n
  BY <1>1 DEF Bytes
<1>3. \A i \in 1 .. n : f[i] = k + i
  BY DEF Bytes
<1> HIDE DEF f
<1>4. /\ sent \o f \in Seq(Nat) /\ Len(sent \o f) = k + Len(f)
      /\ \A i \in 1 .. k + Len(f) : (sent \o f)[i] = IF i <= k THEN sent[i] ELSE f[i - k]
  BY <1>1, <1>2, ConcatProperties, Zenon
<1>5. sent' = sent \o f
  BY DEF f
<1> HIDE DEF k
<1>6. /\ sent' \in Seq(Nat) /\ Len(sent') = k + n
      /\ \A i \in 1 .. k + n : sent'[i] = IF i <= k THEN sent[i] ELSE f[i - k]
  BY ONLY <1>2, <1>4, <1>5, Zenon
<1>7. ASSUME NEW i \in 1 .. k + n PROVE sent'[i] = i
  <2>1. i \in Nat /\ k \in Nat
    BY <1>1
  <2>2. CASE i <= k
    BY <2>1, <2>2, <1>1, <1>6
  <2>3. CASE i > k
    <3>1. i - k \in 1 .. n /\ ~(i <= k)
      BY <2>1, <2>3
    <3>2. sent'[i] = f[i - k]
      BY <3>1, <1>6
    <3>3. f[i - k] = k + (i - k)
      BY <3>1, <1>3
    <3> QED
      BY <2>1, <3>2, <3>3
  <2>4. i <= k \/ i > k
    BY <2>1
  <2> QED
    BY <2>2, <2>3, <2>4
<1> QED
  BY <1>6, <1>7 DEF k

(* A write goes on with the header, ... *)
LEMMA WritesHeader ==
    ASSUME TypeOK, SentInOrder, NEW n \in Nat \ {0}, n <= HeaderLeft, WriteHeader(n)
    PROVE  /\ answer' \in Answer /\ answer' # None
           /\ Body(answer') = Body(answer)
           /\ sent' \in Seq(Nat)
           /\ SentInOrder'
<1>1. answer \in Answer /\ answer # None
  BY DEF TypeOK, WriteHeader, Writing
<1>2. answer' = [answer EXCEPT !.header_bytes_written = @ + n]
  BY DEF WriteHeader
<1> DEFINE h == answer.header_bytes_written
           b == answer.body_bytes_written
<1>3. h \in Nat /\ b \in Nat /\ answer.body \in BOOLEAN
  BY <1>1 DEF Answer
<1>4. /\ answer' \in Answer
      /\ answer'.header_bytes_written = h + n
      /\ answer'.body_bytes_written = b
      /\ answer'.body = answer.body
  BY <1>1, <1>2, <1>3 DEF Answer
<1>5. answer' # None
  BY <1>4, NoneAssumption
<1>6. h + n <= HeaderSize
  BY <1>3, RequestAssumption DEF HeaderLeft
<1>7. b = 0 /\ Len(sent) = h
  BY <1>1, <1>3, <1>6, RequestAssumption DEF SentInOrder
<1>8. sent' = sent \o Bytes(h, n)
  BY DEF WriteHeader
<1> HIDE DEF h, b
<1>9. /\ sent' \in Seq(Nat) /\ Len(sent') = h + n
       /\ \A i \in 1 .. Len(sent') : sent'[i] = i
  <2>1. sent' = sent \o Bytes(Len(sent), n)
    BY <1>7, <1>8
  <2> QED
    BY <2>1, <1>7, Appends
<1>10. SentInOrder'
  BY <1>4, <1>5, <1>6, <1>7, <1>9 DEF SentInOrder
<1> QED
  BY <1>1, <1>4, <1>5, <1>9, <1>10 DEF Body

(* ... or with the body. *)
LEMMA WritesBody ==
    ASSUME TypeOK, SentInOrder, NEW n \in Nat \ {0}, n <= BodyLeft, WriteBody(n)
    PROVE  /\ answer' \in Answer /\ answer' # None
           /\ Body(answer') = Body(answer)
           /\ sent' \in Seq(Nat)
           /\ SentInOrder'
<1>1. answer \in Answer /\ answer # None
  BY DEF TypeOK, WriteBody, Writing
<1>2. answer' = [answer EXCEPT !.body_bytes_written = @ + n]
  BY DEF WriteBody
<1> DEFINE h == answer.header_bytes_written
           b == answer.body_bytes_written
<1>3. h \in Nat /\ b \in Nat /\ answer.body \in BOOLEAN
  BY <1>1 DEF Answer
<1>4. /\ answer' \in Answer
      /\ answer'.header_bytes_written = h
      /\ answer'.body_bytes_written = b + n
      /\ answer'.body = answer.body
  BY <1>1, <1>2, <1>3 DEF Answer
<1>5. answer' # None
  BY <1>4, NoneAssumption
<1>6. h = HeaderSize /\ answer.body
  BY <1>3, RequestAssumption DEF HeaderLeft, BodyLeft, WriteBody
<1>7. Len(sent) = HeaderSize + b
  BY <1>1, <1>6 DEF SentInOrder
<1>8. sent' = sent \o Bytes(HeaderSize + b, n)
  BY DEF WriteBody
<1> HIDE DEF h, b
<1>9. /\ sent' \in Seq(Nat) /\ Len(sent') = (HeaderSize + b) + n
       /\ \A i \in 1 .. Len(sent') : sent'[i] = i
  <2>1. sent' = sent \o Bytes(Len(sent), n)
    BY <1>7, <1>8
  <2> QED
    BY <2>1, <1>7, Appends
<1>10. Len(sent') = h + (b + n)
  BY <1>3, <1>6, <1>9, RequestAssumption
<1>11. SentInOrder'
  BY <1>3, <1>4, <1>5, <1>6, <1>9, <1>10, RequestAssumption DEF SentInOrder
<1> QED
  BY <1>1, <1>4, <1>5, <1>9, <1>11 DEF Body

(* The phases of a request. *)
LEMMA PhaseStep ==
    ASSUME IInv, [Next]_vars
    PROVE  PhaseInv'
<1> USE RequestAssumption, NoneAssumption DEF IInv, Typed, control, readVars, answerVars, cacheVars, loadVars, Holder, writeVars
<1>1. ASSUME Connect PROVE PhaseInv'
  BY <1>1 DEF Connect, Goes, PhaseInv, TypeOK
<1>2. ASSUME NEW m \in Nat, NEW bytes \in [1 .. m -> Byte], Read(bytes) PROVE PhaseInv'
  BY <1>2 DEF Read, Goes, Room, PhaseInv, TypeOK
<1>3. ASSUME ReadBlocks PROVE PhaseInv'
  BY <1>3 DEF ReadBlocks, Goes, Room, PhaseInv, TypeOK
<1>4. ASSUME ReadFails PROVE PhaseInv'
  BY <1>4 DEF ReadFails, Goes, Fails, Room, PhaseInv, TypeOK
<1>5. ASSUME ParseCrashes PROVE PhaseInv'
  BY <1>5 DEF ParseCrashes, Goes, PhaseInv, TypeOK
<1>6. ASSUME ParseFails PROVE PhaseInv'
  BY <1>6 DEF ParseFails, Goes, Fails, PhaseInv, TypeOK
<1>7. ASSUME Unsupported PROVE PhaseInv'
  BY <1>7 DEF Unsupported, Goes, PreparePlain, Prepare, PhaseInv, TypeOK
<1>8. ASSUME NEW n \in Paths, Parse(n) PROVE PhaseInv'
  BY <1>8 DEF Parse, Goes, SetString, NewString, PrefixString, Most, PhaseInv, TypeOK
<1>9. ASSUME NoFile PROVE PhaseInv'
  BY <1>9 DEF NoFile, Goes, PreparePlain, Prepare, PhaseInv, TypeOK
<1>10. ASSUME StatFails PROVE PhaseInv'
  BY <1>10 DEF StatFails, Goes, Fails, PhaseInv, TypeOK
<1>11. ASSUME NEW n \in FileSizes, Fill(n) PROVE PhaseInv'
  <2>1. response' = [content_length |-> n, body |-> FALSE] /\ n \in Nat
    BY <1>11 DEF Fill
  <2>2. response' \in Response
    BY <2>1 DEF Response
  <2>3. response' # None
    BY <2>2
  <2> QED
    BY <1>11, <2>3 DEF Fill, Goes, PhaseInv, TypeOK
<1>12. ASSUME NEW n \in Nat, NEW b \in BOOLEAN, NEW l \in Holder, Hit(n, b, l) PROVE PhaseInv'
  <2>1. n \in Nat /\ AddBody(n) /\ response # None
    BY <1>12 DEF Hit, Goes, PhaseInv
  <2>2. /\ response' # None /\ answer' = answer
        /\ Body(response') = 1 /\ handles' = handles + 1 - Body(response)
    BY <2>1, AddsBody
  <2> QED
    BY <1>12, <2>2 DEF Hit, Goes, PhaseInv, TypeOK
<1>13. ASSUME NEW n \in Nat, NEW b \in BOOLEAN, NEW l \in Holder, Miss(n, b, l) PROVE PhaseInv'
  <2>1. AddBody(n) /\ response # None
    BY <1>13 DEF Miss, Goes, PhaseInv
  <2>2. /\ response' # None /\ answer' = answer
        /\ Body(response') = 1 /\ handles' = handles + 1 - Body(response)
    BY <2>1, AddsBody
  <2> QED
    BY <1>13, <2>2 DEF Miss, Goes, PhaseInv, TypeOK
<1>14. ASSUME MissFails PROVE PhaseInv'
  BY <1>14 DEF MissFails, Goes, Fails, PhaseInv, TypeOK
<1>15. ASSUME Loaded PROVE PhaseInv'
  BY <1>15 DEF Loaded, Goes, PhaseInv, TypeOK
<1>16. ASSUME Queue PROVE PhaseInv'
  BY <1>16 DEF Queue, Goes, PhaseInv, TypeOK
<1>17. ASSUME QueueFails PROVE PhaseInv'
  BY <1>17 DEF QueueFails, Goes, Fails, PhaseInv, TypeOK
<1>18. ASSUME Mark PROVE PhaseInv'
  BY <1>18 DEF Mark, Goes, PhaseInv, TypeOK
<1>19. ASSUME Ok PROVE PhaseInv'
  BY <1>19 DEF Ok, Goes, PrepareOk, Prepare, PhaseInv, TypeOK
<1>20. ASSUME NEW n \in FileSizes, FileRead(n) PROVE PhaseInv'
  <2>1. CASE PrepareOk
    <3>1. response' # None /\ answer' # None
      BY <1>20, <2>1, PreparesOk DEF FileRead, PhaseInv
    <3> QED
      BY <1>20, <2>1, <3>1 DEF FileRead, PhaseInv, TypeOK
  <2>2. CASE UNCHANGED answerVars
    BY <1>20, <2>2 DEF FileRead, PhaseInv, TypeOK
  <2> QED
    BY <1>20, <2>1, <2>2 DEF FileRead
<1>21. ASSUME FileFails PROVE PhaseInv'
  BY <1>21 DEF FileFails, PreparePlain, Prepare, PhaseInv, TypeOK
<1>22. ASSUME NEW n \in FileSizes, OthersLoad(n) PROVE PhaseInv'
  BY <1>22 DEF OthersLoad, Goes, PhaseInv, TypeOK
<1>23. ASSUME NEW n \in Nat \ {0}, n <= HeaderLeft, WriteHeader(n) PROVE PhaseInv'
  BY <1>23 DEF WriteHeader, Writing, Goes, HeaderLeft, BodyLeft, PhaseInv, TypeOK
<1>24. ASSUME NEW n \in Nat \ {0}, n <= BodyLeft, WriteBody(n) PROVE PhaseInv'
  BY <1>24 DEF WriteBody, Writing, UnderReadLock, Goes, HeaderLeft, BodyLeft, PhaseInv, TypeOK
<1>25. ASSUME WriteBlocks PROVE PhaseInv'
  BY <1>25 DEF WriteBlocks, Writing, UnderReadLock, Goes, HeaderLeft, BodyLeft, PhaseInv, TypeOK
<1>26. ASSUME WriteFails PROVE PhaseInv'
  BY <1>26 DEF WriteFails, Writing, UnderReadLock, Goes, HeaderLeft, BodyLeft, PhaseInv, TypeOK
<1>27. ASSUME WriteUnderflows PROVE PhaseInv'
  BY <1>27 DEF WriteUnderflows, Writing, UnderReadLock, Goes, HeaderLeft, BodyLeft, PhaseInv, TypeOK
<1>28. ASSUME WriteEnds PROVE PhaseInv'
  BY <1>28 DEF WriteEnds, Writing, UnderReadLock, Goes, HeaderLeft, BodyLeft, PhaseInv, TypeOK
<1>29. ASSUME Close PROVE PhaseInv'
  BY <1>29 DEF Close, Goes, PhaseInv, TypeOK
<1>30. ASSUME UNCHANGED vars PROVE PhaseInv'
  BY <1>30 DEF vars, PhaseInv, TypeOK
<1>31. ASSUME LockWrite PROVE PhaseInv'
  BY <1>31 DEF LockWrite, Goes, PhaseInv, TypeOK
<1>32. ASSUME OthersFail PROVE PhaseInv'
  BY <1>32 DEF OthersFail, Goes, PhaseInv, TypeOK
<1>33. ASSUME OthersUnlock PROVE PhaseInv'
  BY <1>33 DEF OthersUnlock, Goes, PhaseInv, TypeOK
<1> HIDE DEF IInv, Typed
<1> QED
  BY <1>1, <1>2, <1>3, <1>4, <1>5, <1>6, <1>7, <1>8, <1>9, <1>10, <1>11, <1>12, <1>13, <1>14, <1>15, <1>16, <1>17, <1>18, <1>19, <1>20, <1>21, <1>22, <1>23, <1>24, <1>25, <1>26, <1>27, <1>28, <1>29, <1>30, <1>31, <1>32, <1>33, Cases DEF vars

(* A handle moves, or is released. *)
LEMMA HandlesStep ==
    ASSUME IInv, [Next]_vars
    PROVE  HandlesOwned'
<1> USE RequestAssumption, NoneAssumption DEF IInv, Typed, control, readVars, answerVars, cacheVars, loadVars, Holder, writeVars
<1>1. ASSUME Connect PROVE HandlesOwned'
  BY <1>1 DEF Connect, Goes, HandlesOwned, PhaseInv, Body, TypeOK, Response, Answer
<1>2. ASSUME NEW m \in Nat, NEW bytes \in [1 .. m -> Byte], Read(bytes) PROVE HandlesOwned'
  BY <1>2 DEF Read, Goes, Room, HandlesOwned, PhaseInv, Body, TypeOK, Response, Answer
<1>3. ASSUME ReadBlocks PROVE HandlesOwned'
  BY <1>3 DEF ReadBlocks, Goes, Room, HandlesOwned, PhaseInv, Body, TypeOK, Response, Answer
<1>4. ASSUME ReadFails PROVE HandlesOwned'
  BY <1>4 DEF ReadFails, Goes, Fails, Room, HandlesOwned, PhaseInv, Body, TypeOK, Response, Answer
<1>5. ASSUME ParseCrashes PROVE HandlesOwned'
  BY <1>5 DEF ParseCrashes, Goes, HandlesOwned, PhaseInv, Body, TypeOK, Response, Answer
<1>6. ASSUME ParseFails PROVE HandlesOwned'
  BY <1>6 DEF ParseFails, Goes, Fails, HandlesOwned, PhaseInv, Body, TypeOK, Response, Answer
<1>7. ASSUME Unsupported PROVE HandlesOwned'
  BY <1>7 DEF Unsupported, Goes, PreparePlain, Prepare, HandlesOwned, PhaseInv, Body, TypeOK, Response, Answer
<1>8. ASSUME NEW n \in Paths, Parse(n) PROVE HandlesOwned'
  BY <1>8 DEF Parse, Goes, SetString, NewString, PrefixString, Most, HandlesOwned, PhaseInv, Body, TypeOK, Response, Answer
<1>9. ASSUME NoFile PROVE HandlesOwned'
  BY <1>9 DEF NoFile, Goes, PreparePlain, Prepare, HandlesOwned, PhaseInv, Body, TypeOK, Response, Answer
<1>10. ASSUME StatFails PROVE HandlesOwned'
  BY <1>10 DEF StatFails, Goes, Fails, HandlesOwned, PhaseInv, Body, TypeOK, Response, Answer
<1>11. ASSUME NEW n \in FileSizes, Fill(n) PROVE HandlesOwned'
  BY <1>11 DEF Fill, Goes, HandlesOwned, PhaseInv, Body, TypeOK, Response, Answer
<1>12. ASSUME NEW n \in Nat, NEW b \in BOOLEAN, NEW l \in Holder, Hit(n, b, l) PROVE HandlesOwned'
  <2>1. n \in Nat /\ AddBody(n) /\ response # None
    BY <1>12 DEF Hit, Goes, PhaseInv
  <2>2. /\ response' # None /\ answer' = answer
        /\ Body(response') = 1 /\ handles' = handles + 1 - Body(response)
    BY <2>1, AddsBody
  <2> QED
    BY <1>12, <2>2 DEF Hit, Goes, HandlesOwned, PhaseInv, Body, TypeOK
<1>13. ASSUME NEW n \in Nat, NEW b \in BOOLEAN, NEW l \in Holder, Miss(n, b, l) PROVE HandlesOwned'
  <2>1. AddBody(n) /\ response # None
    BY <1>13 DEF Miss, Goes, PhaseInv
  <2>2. /\ response' # None /\ answer' = answer
        /\ Body(response') = 1 /\ handles' = handles + 1 - Body(response)
    BY <2>1, AddsBody
  <2> QED
    BY <1>13, <2>2 DEF Miss, Goes, HandlesOwned, PhaseInv, Body, TypeOK
<1>14. ASSUME MissFails PROVE HandlesOwned'
  BY <1>14 DEF MissFails, Goes, Fails, HandlesOwned, PhaseInv, Body, TypeOK, Response, Answer
<1>15. ASSUME Loaded PROVE HandlesOwned'
  BY <1>15 DEF Loaded, Goes, HandlesOwned, PhaseInv, Body, TypeOK, Response, Answer
<1>16. ASSUME Queue PROVE HandlesOwned'
  BY <1>16 DEF Queue, Goes, HandlesOwned, PhaseInv, Body, TypeOK, Response, Answer
<1>17. ASSUME QueueFails PROVE HandlesOwned'
  BY <1>17 DEF QueueFails, Goes, Fails, HandlesOwned, PhaseInv, Body, TypeOK, Response, Answer
<1>18. ASSUME Mark PROVE HandlesOwned'
  BY <1>18 DEF Mark, Goes, HandlesOwned, PhaseInv, Body, TypeOK, Response, Answer
<1>19. ASSUME Ok PROVE HandlesOwned'
  BY <1>19 DEF Ok, Goes, PrepareOk, Prepare, HandlesOwned, PhaseInv, Body, TypeOK, Response, Answer
<1>20. ASSUME NEW n \in FileSizes, FileRead(n) PROVE HandlesOwned'
  BY <1>20 DEF FileRead, PrepareOk, Prepare, HandlesOwned, PhaseInv, Body, TypeOK, Response, Answer
<1>21. ASSUME FileFails PROVE HandlesOwned'
  BY <1>21 DEF FileFails, PreparePlain, Prepare, HandlesOwned, PhaseInv, Body, TypeOK, Response, Answer
<1>22. ASSUME NEW n \in FileSizes, OthersLoad(n) PROVE HandlesOwned'
  BY <1>22 DEF OthersLoad, Goes, HandlesOwned, PhaseInv, Body, TypeOK, Response, Answer
<1>23. ASSUME NEW n \in Nat \ {0}, n <= HeaderLeft, WriteHeader(n) PROVE HandlesOwned'
  <2>1. Body(answer') = Body(answer)
    BY <1>23, WritesHeader
  <2> QED
    BY <1>23, <2>1 DEF WriteHeader, Writing, Goes, HandlesOwned, Body
<1>24. ASSUME NEW n \in Nat \ {0}, n <= BodyLeft, WriteBody(n) PROVE HandlesOwned'
  <2>1. Body(answer') = Body(answer)
    BY <1>24, WritesBody
  <2> QED
    BY <1>24, <2>1 DEF WriteBody, Writing, UnderReadLock, Goes, HandlesOwned, Body
<1>25. ASSUME WriteBlocks PROVE HandlesOwned'
  BY <1>25 DEF WriteBlocks, Writing, UnderReadLock, Goes, HeaderLeft, BodyLeft, HandlesOwned, PhaseInv, Body, TypeOK, Response, Answer
<1>26. ASSUME WriteFails PROVE HandlesOwned'
  BY <1>26 DEF WriteFails, Writing, UnderReadLock, Goes, HeaderLeft, BodyLeft, HandlesOwned, PhaseInv, Body, TypeOK, Response, Answer
<1>27. ASSUME WriteUnderflows PROVE HandlesOwned'
  BY <1>27 DEF WriteUnderflows, Writing, UnderReadLock, Goes, HeaderLeft, BodyLeft, HandlesOwned, PhaseInv, Body, TypeOK, Response, Answer
<1>28. ASSUME WriteEnds PROVE HandlesOwned'
  BY <1>28 DEF WriteEnds, Writing, UnderReadLock, Goes, HeaderLeft, BodyLeft, HandlesOwned, PhaseInv, Body, TypeOK, Response, Answer
<1>29. ASSUME Close PROVE HandlesOwned'
  BY <1>29 DEF Close, Goes, HandlesOwned, PhaseInv, Body, TypeOK, Response, Answer
<1>30. ASSUME UNCHANGED vars PROVE HandlesOwned'
  BY <1>30 DEF vars, HandlesOwned, PhaseInv, Body, TypeOK, Response, Answer
<1>31. ASSUME LockWrite PROVE HandlesOwned'
  BY <1>31 DEF LockWrite, Goes, HandlesOwned, PhaseInv, Body, TypeOK, Response, Answer
<1>32. ASSUME OthersFail PROVE HandlesOwned'
  BY <1>32 DEF OthersFail, Goes, HandlesOwned, PhaseInv, Body, TypeOK, Response, Answer
<1>33. ASSUME OthersUnlock PROVE HandlesOwned'
  BY <1>33 DEF OthersUnlock, Goes, HandlesOwned, PhaseInv, Body, TypeOK, Response, Answer
<1> HIDE DEF IInv, Typed
<1> QED
  BY <1>1, <1>2, <1>3, <1>4, <1>5, <1>6, <1>7, <1>8, <1>9, <1>10, <1>11, <1>12, <1>13, <1>14, <1>15, <1>16, <1>17, <1>18, <1>19, <1>20, <1>21, <1>22, <1>23, <1>24, <1>25, <1>26, <1>27, <1>28, <1>29, <1>30, <1>31, <1>32, <1>33, Cases DEF vars

(* Sending goes on where it stopped. *)
LEMMA SentStep ==
    ASSUME IInv, [Next]_vars
    PROVE  SentInOrder'
<1> USE RequestAssumption, NoneAssumption DEF IInv, Typed, control, readVars, answerVars, cacheVars, loadVars, Holder, writeVars
<1>1. ASSUME Connect PROVE SentInOrder'
  BY <1>1 DEF Connect, Goes, SentInOrder, PhaseInv, TypeOK, Answer
<1>2. ASSUME NEW m \in Nat, NEW bytes \in [1 .. m -> Byte], Read(bytes) PROVE SentInOrder'
  BY <1>2 DEF Read, Goes, Room, SentInOrder, PhaseInv, TypeOK, Answer
<1>3. ASSUME ReadBlocks PROVE SentInOrder'
  BY <1>3 DEF ReadBlocks, Goes, Room, SentInOrder, PhaseInv, TypeOK, Answer
<1>4. ASSUME ReadFails PROVE SentInOrder'
  BY <1>4 DEF ReadFails, Goes, Fails, Room, SentInOrder, PhaseInv, TypeOK, Answer
<1>5. ASSUME ParseCrashes PROVE SentInOrder'
  BY <1>5 DEF ParseCrashes, Goes, SentInOrder, PhaseInv, TypeOK, Answer
<1>6. ASSUME ParseFails PROVE SentInOrder'
  BY <1>6 DEF ParseFails, Goes, Fails, SentInOrder, PhaseInv, TypeOK, Answer
<1>7. ASSUME Unsupported PROVE SentInOrder'
  BY <1>7 DEF Unsupported, Goes, PreparePlain, Prepare, SentInOrder, PhaseInv, TypeOK, Answer
<1>8. ASSUME NEW n \in Paths, Parse(n) PROVE SentInOrder'
  BY <1>8 DEF Parse, Goes, SetString, NewString, PrefixString, Most, SentInOrder, PhaseInv, TypeOK, Answer
<1>9. ASSUME NoFile PROVE SentInOrder'
  BY <1>9 DEF NoFile, Goes, PreparePlain, Prepare, SentInOrder, PhaseInv, TypeOK, Answer
<1>10. ASSUME StatFails PROVE SentInOrder'
  BY <1>10 DEF StatFails, Goes, Fails, SentInOrder, PhaseInv, TypeOK, Answer
<1>11. ASSUME NEW n \in FileSizes, Fill(n) PROVE SentInOrder'
  BY <1>11 DEF Fill, Goes, SentInOrder, PhaseInv, TypeOK, Answer
<1>12. ASSUME NEW n \in Nat, NEW b \in BOOLEAN, NEW l \in Holder, Hit(n, b, l) PROVE SentInOrder'
  BY <1>12 DEF Hit, Goes, AddBody, SentInOrder, PhaseInv, TypeOK, Answer
<1>13. ASSUME NEW n \in Nat, NEW b \in BOOLEAN, NEW l \in Holder, Miss(n, b, l) PROVE SentInOrder'
  BY <1>13 DEF Miss, Goes, AddBody, SentInOrder, PhaseInv, TypeOK, Answer
<1>14. ASSUME MissFails PROVE SentInOrder'
  BY <1>14 DEF MissFails, Goes, Fails, SentInOrder, PhaseInv, TypeOK, Answer
<1>15. ASSUME Loaded PROVE SentInOrder'
  BY <1>15 DEF Loaded, Goes, SentInOrder, PhaseInv, TypeOK, Answer
<1>16. ASSUME Queue PROVE SentInOrder'
  BY <1>16 DEF Queue, Goes, SentInOrder, PhaseInv, TypeOK, Answer
<1>17. ASSUME QueueFails PROVE SentInOrder'
  BY <1>17 DEF QueueFails, Goes, Fails, SentInOrder, PhaseInv, TypeOK, Answer
<1>18. ASSUME Mark PROVE SentInOrder'
  BY <1>18 DEF Mark, Goes, SentInOrder, PhaseInv, TypeOK, Answer
<1>19. ASSUME Ok PROVE SentInOrder'
  BY <1>19 DEF Ok, Goes, PrepareOk, Prepare, SentInOrder, PhaseInv, TypeOK, Answer
<1>20. ASSUME NEW n \in FileSizes, FileRead(n) PROVE SentInOrder'
  BY <1>20 DEF FileRead, PrepareOk, Prepare, SentInOrder, PhaseInv, TypeOK, Answer
<1>21. ASSUME FileFails PROVE SentInOrder'
  BY <1>21 DEF FileFails, PreparePlain, Prepare, SentInOrder, PhaseInv, TypeOK, Answer
<1>22. ASSUME NEW n \in FileSizes, OthersLoad(n) PROVE SentInOrder'
  BY <1>22 DEF OthersLoad, Goes, SentInOrder, PhaseInv, TypeOK, Answer
<1>23. ASSUME NEW n \in Nat \ {0}, n <= HeaderLeft, WriteHeader(n) PROVE SentInOrder'
  BY <1>23, WritesHeader
<1>24. ASSUME NEW n \in Nat \ {0}, n <= BodyLeft, WriteBody(n) PROVE SentInOrder'
  BY <1>24, WritesBody
<1>25. ASSUME WriteBlocks PROVE SentInOrder'
  BY <1>25 DEF WriteBlocks, Writing, UnderReadLock, Goes, HeaderLeft, BodyLeft, SentInOrder, PhaseInv, TypeOK, Answer
<1>26. ASSUME WriteFails PROVE SentInOrder'
  BY <1>26 DEF WriteFails, Writing, UnderReadLock, Goes, HeaderLeft, BodyLeft, SentInOrder, PhaseInv, TypeOK, Answer
<1>27. ASSUME WriteUnderflows PROVE SentInOrder'
  BY <1>27 DEF WriteUnderflows, Writing, UnderReadLock, Goes, HeaderLeft, BodyLeft, SentInOrder, PhaseInv, TypeOK, Answer
<1>28. ASSUME WriteEnds PROVE SentInOrder'
  BY <1>28 DEF WriteEnds, Writing, UnderReadLock, Goes, HeaderLeft, BodyLeft, SentInOrder, PhaseInv, TypeOK, Answer
<1>29. ASSUME Close PROVE SentInOrder'
  BY <1>29 DEF Close, Goes, SentInOrder, PhaseInv, TypeOK, Answer
<1>30. ASSUME UNCHANGED vars PROVE SentInOrder'
  BY <1>30 DEF vars, SentInOrder, PhaseInv, TypeOK, Answer
<1>31. ASSUME LockWrite PROVE SentInOrder'
  BY <1>31 DEF LockWrite, Goes, SentInOrder, PhaseInv, TypeOK, Answer
<1>32. ASSUME OthersFail PROVE SentInOrder'
  BY <1>32 DEF OthersFail, Goes, SentInOrder, PhaseInv, TypeOK, Answer
<1>33. ASSUME OthersUnlock PROVE SentInOrder'
  BY <1>33 DEF OthersUnlock, Goes, SentInOrder, PhaseInv, TypeOK, Answer
<1> HIDE DEF IInv, Typed
<1> QED
  BY <1>1, <1>2, <1>3, <1>4, <1>5, <1>6, <1>7, <1>8, <1>9, <1>10, <1>11, <1>12, <1>13, <1>14, <1>15, <1>16, <1>17, <1>18, <1>19, <1>20, <1>21, <1>22, <1>23, <1>24, <1>25, <1>26, <1>27, <1>28, <1>29, <1>30, <1>31, <1>32, <1>33, Cases DEF vars

(* The types after a step that neither reads nor writes. *)
LEMMA TypedAfter ==
    ASSUME Typed, UNCHANGED <<place, readVars, writeVars>>,
           state' \in {state, "WRITE", "ERROR"},
           response' \in Response \cup {None}, answer' \in Answer \cup {None}, handles' \in Nat,
           writer' \in {"none", "got", "leaked"}, lock' \in Holder, used' \in Nat,
           loading' \in BOOLEAN, queued' \in BOOLEAN
    PROVE  Typed'
<1> USE DEF Typed, readVars, writeVars
<1>1. /\ UNCHANGED <<place, buffer, capacity, path, early>>
      /\ UNCHANGED <<sent, blocked, broken>>
  OBVIOUS
<1>2. /\ buffer' \in Seq(Byte) /\ capacity' \in Nat /\ Len(buffer') <= capacity'
      /\ path' \in String \cup {None} /\ (path' # None => path'.size <= path'.capacity)
      /\ early' \in BOOLEAN
  BY <1>1 DEF TypeOK
<1>3. sent' \in Seq(Nat) /\ blocked' \in BOOLEAN /\ broken' \in BOOLEAN
  BY <1>1 DEF TypeOK
<1>4. /\ state' \in {"CONNECT", "READ", "WAITING_FOR_BODY", "WRITE", "DONE", "ERROR", "gone", "killed"}
      /\ place' \in {"turn", "process", "stat", "lookup", "lock", "load", "mark", "ok"}
  BY <1>1 DEF TypeOK
<1>5. TypeOK'
  BY <1>2, <1>3, <1>4 DEF TypeOK
<1>6. capacity' > 0
  BY <1>1
<1> QED
  BY <1>5, <1>6

(* Types, and room in the strings. *)
LEMMA TypeStep ==
    ASSUME IInv, [Next]_vars
    PROVE  Typed'
<1> USE RequestAssumption, NoneAssumption DEF IInv, Typed, control, readVars, answerVars, cacheVars, loadVars, Holder, writeVars
<1>0. handles' \in Nat
  <2>1. HandlesOwned'
    BY HandlesStep
  <2> QED
    BY <2>1 DEF HandlesOwned, Body
<1>1. ASSUME Connect PROVE Typed'
  BY <1>1 DEF Connect, Goes, TypeOK, PhaseInv, HandlesOwned, Body, Response, Answer, String
<1>2. ASSUME NEW m \in Nat, NEW bytes \in [1 .. m -> Byte], Read(bytes) PROVE Typed'
  BY <1>2 DEF Read, Goes, Room, TypeOK, PhaseInv, HandlesOwned, Body, Response, Answer, String
<1>3. ASSUME ReadBlocks PROVE Typed'
  BY <1>3 DEF ReadBlocks, Goes, Room, TypeOK, PhaseInv, HandlesOwned, Body, Response, Answer, String
<1>4. ASSUME ReadFails PROVE Typed'
  BY <1>4 DEF ReadFails, Goes, Fails, Room, TypeOK, PhaseInv, HandlesOwned, Body, Response, Answer, String
<1>5. ASSUME ParseCrashes PROVE Typed'
  BY <1>5 DEF ParseCrashes, Goes, TypeOK, PhaseInv, HandlesOwned, Body, Response, Answer, String
<1>6. ASSUME ParseFails PROVE Typed'
  BY <1>6 DEF ParseFails, Goes, Fails, TypeOK, PhaseInv, HandlesOwned, Body, Response, Answer, String
<1>7. ASSUME Unsupported PROVE Typed'
  BY <1>7 DEF Unsupported, Goes, PreparePlain, Prepare, TypeOK, PhaseInv, HandlesOwned, Body, Response, Answer, String
<1>8. ASSUME NEW n \in Paths, Parse(n) PROVE Typed'
  BY <1>8 DEF Parse, Goes, SetString, NewString, PrefixString, Most, TypeOK, PhaseInv, HandlesOwned, Body, Response, Answer, String
<1>9. ASSUME NoFile PROVE Typed'
  BY <1>9 DEF NoFile, Goes, PreparePlain, Prepare, TypeOK, PhaseInv, HandlesOwned, Body, Response, Answer, String
<1>10. ASSUME StatFails PROVE Typed'
  BY <1>10 DEF StatFails, Goes, Fails, TypeOK, PhaseInv, HandlesOwned, Body, Response, Answer, String
<1>11. ASSUME NEW n \in FileSizes, Fill(n) PROVE Typed'
  BY <1>11 DEF Fill, Goes, TypeOK, PhaseInv, HandlesOwned, Body, Response, Answer, String
<1>12. ASSUME NEW n \in Nat, NEW b \in BOOLEAN, NEW l \in Holder, Hit(n, b, l) PROVE Typed'
  <2>1. n \in Nat /\ b \in BOOLEAN /\ AddBody(n) /\ response # None
    BY <1>12 DEF Hit, Goes, PhaseInv
  <2>2. response' \in Response /\ answer' = answer /\ used' \in Nat
    BY <2>1, AddsBody
  <2> QED
    BY <1>12, <1>0, <2>2 DEF Hit, Goes, TypeOK
<1>13. ASSUME NEW n \in Nat, NEW b \in BOOLEAN, NEW l \in Holder, Miss(n, b, l) PROVE Typed'
  <2>1. AddBody(n) /\ response # None
    BY <1>13 DEF Miss, Goes, PhaseInv
  <2>2. response' \in Response /\ answer' = answer /\ used' \in Nat
    BY <2>1, AddsBody
  <2> QED
    BY <1>13, <1>0, <2>2 DEF Miss, Goes, TypeOK
<1>14. ASSUME MissFails PROVE Typed'
  BY <1>14 DEF MissFails, Goes, Fails, TypeOK, PhaseInv, HandlesOwned, Body, Response, Answer, String
<1>15. ASSUME Loaded PROVE Typed'
  BY <1>15 DEF Loaded, Goes, TypeOK, PhaseInv, HandlesOwned, Body, Response, Answer, String
<1>16. ASSUME Queue PROVE Typed'
  BY <1>16 DEF Queue, Goes, TypeOK, PhaseInv, HandlesOwned, Body, Response, Answer, String
<1>17. ASSUME QueueFails PROVE Typed'
  BY <1>17 DEF QueueFails, Goes, Fails, TypeOK, PhaseInv, HandlesOwned, Body, Response, Answer, String
<1>18. ASSUME Mark PROVE Typed'
  BY <1>18 DEF Mark, Goes, TypeOK, PhaseInv, HandlesOwned, Body, Response, Answer, String
<1>19. ASSUME Ok PROVE Typed'
  <2>1. CASE PrepareOk
    <3>1. response' \in Response /\ answer' \in Answer
      BY <1>19, <2>1, PreparesOk DEF Ok, Goes, PhaseInv
    <3> QED
      BY <1>19, <1>0, <3>1 DEF Ok, Goes, TypeOK
  <2>2. CASE UNCHANGED answerVars
    BY <1>19, <1>0, <2>2 DEF Ok, Goes, TypeOK
  <2> QED
    BY <1>19, <2>1, <2>2 DEF Ok
<1>20. ASSUME NEW n \in FileSizes, FileRead(n) PROVE Typed'
  <2>1. response' \in Response \cup {None} /\ answer' \in Answer \cup {None}
    <3>1. CASE PrepareOk
      BY <1>20, <3>1, PreparesOk DEF FileRead, PhaseInv
    <3>2. CASE UNCHANGED answerVars
      BY <3>2 DEF TypeOK
    <3> QED
      BY <1>20, <3>1, <3>2 DEF FileRead
  <2>2. /\ UNCHANGED <<place, readVars, writeVars>> /\ state' \in {"WRITE", "ERROR"}
        /\ writer' = "none" /\ lock' \in Holder
        /\ used' \in Nat /\ loading' \in BOOLEAN /\ queued' = FALSE
    BY <1>20 DEF FileRead, TypeOK
  <2> QED
    BY <1>0, <2>1, <2>2, TypedAfter
<1>21. ASSUME FileFails PROVE Typed'
  <2>1. response' \in Response \cup {None} /\ answer' \in Answer \cup {None}
    <3>1. CASE PreparePlain
      BY <3>1, PreparesPlain DEF TypeOK
    <3>2. CASE UNCHANGED answerVars
      BY <3>2 DEF TypeOK
    <3> QED
      BY <1>21, <3>1, <3>2 DEF FileFails
  <2>2. /\ UNCHANGED <<place, readVars, writeVars>> /\ state' \in {"WRITE", "ERROR"}
        /\ writer' = "leaked" /\ lock' \in Holder
        /\ used' \in Nat /\ loading' \in BOOLEAN /\ queued' = FALSE
    BY <1>21 DEF FileFails, TypeOK
  <2> QED
    BY <1>0, <2>1, <2>2, TypedAfter
<1>22. ASSUME NEW n \in FileSizes, OthersLoad(n) PROVE Typed'
  <2>1. /\ UNCHANGED <<state, place, readVars, writeVars>>
        /\ response' \in Response \cup {None} /\ answer' \in Answer \cup {None}
        /\ writer' \in {"none", "got", "leaked"} /\ lock' \in Holder
        /\ used' \in Nat /\ loading' = FALSE /\ queued' \in BOOLEAN
    BY <1>22 DEF OthersLoad, TypeOK
  <2> QED
    BY <1>0, <2>1, TypedAfter
<1>23. ASSUME NEW n \in Nat \ {0}, n <= HeaderLeft, WriteHeader(n) PROVE Typed'
  <2>1. answer' \in Answer /\ sent' \in Seq(Nat)
    BY <1>23, WritesHeader
  <2> QED
    BY <1>23, <2>1 DEF WriteHeader, Writing, Goes, TypeOK
<1>24. ASSUME NEW n \in Nat \ {0}, n <= BodyLeft, WriteBody(n) PROVE Typed'
  <2>1. answer' \in Answer /\ sent' \in Seq(Nat)
    BY <1>24, WritesBody
  <2> QED
    BY <1>24, <2>1 DEF WriteBody, Writing, UnderReadLock, Goes, TypeOK
<1>25. ASSUME WriteBlocks PROVE Typed'
  BY <1>25 DEF WriteBlocks, Writing, UnderReadLock, Goes, HeaderLeft, BodyLeft, TypeOK, PhaseInv, HandlesOwned, Body, Response, Answer, String
<1>26. ASSUME WriteFails PROVE Typed'
  BY <1>26 DEF WriteFails, Writing, UnderReadLock, Goes, HeaderLeft, BodyLeft, TypeOK, PhaseInv, HandlesOwned, Body, Response, Answer, String
<1>27. ASSUME WriteUnderflows PROVE Typed'
  BY <1>27 DEF WriteUnderflows, Writing, UnderReadLock, Goes, HeaderLeft, BodyLeft, TypeOK, PhaseInv, HandlesOwned, Body, Response, Answer, String
<1>28. ASSUME WriteEnds PROVE Typed'
  BY <1>28 DEF WriteEnds, Writing, UnderReadLock, Goes, HeaderLeft, BodyLeft, TypeOK, PhaseInv, HandlesOwned, Body, Response, Answer, String
<1>29. ASSUME Close PROVE Typed'
  BY <1>29 DEF Close, Goes, TypeOK, PhaseInv, HandlesOwned, Body, Response, Answer, String
<1>30. ASSUME UNCHANGED vars PROVE Typed'
  BY <1>30 DEF vars, TypeOK, PhaseInv, HandlesOwned, Body, Response, Answer, String
<1>31. ASSUME LockWrite PROVE Typed'
  BY <1>31, <1>0 DEF LockWrite, Goes, TypeOK
<1>32. ASSUME OthersFail PROVE Typed'
  <2>1. /\ UNCHANGED <<state, place, readVars, writeVars>>
        /\ response' \in Response \cup {None} /\ answer' \in Answer \cup {None}
        /\ writer' \in {"none", "got", "leaked"} /\ lock' \in Holder
        /\ used' \in Nat /\ loading' \in BOOLEAN /\ queued' \in BOOLEAN
    BY <1>32 DEF OthersFail, TypeOK
  <2> QED
    BY <1>0, <2>1, TypedAfter
<1>33. ASSUME OthersUnlock PROVE Typed'
  <2>1. /\ UNCHANGED <<state, place, readVars, writeVars>>
        /\ response' \in Response \cup {None} /\ answer' \in Answer \cup {None}
        /\ writer' \in {"none", "got", "leaked"} /\ lock' \in Holder
        /\ used' \in Nat /\ loading' \in BOOLEAN /\ queued' \in BOOLEAN
    BY <1>33 DEF OthersUnlock, TypeOK
  <2> QED
    BY <1>0, <2>1, TypedAfter
<1> HIDE DEF IInv, Typed
<1> QED
  BY <1>1, <1>2, <1>3, <1>4, <1>5, <1>6, <1>7, <1>8, <1>9, <1>10, <1>11, <1>12, <1>13, <1>14, <1>15, <1>16, <1>17, <1>18, <1>19, <1>20, <1>21, <1>22, <1>23, <1>24, <1>25, <1>26, <1>27, <1>28, <1>29, <1>30, <1>31, <1>32, <1>33, Cases DEF vars

(* ... and Init establishes all of it. *)
LEMMA InitInv ==
    ASSUME Init
    PROVE  IInv
<1> USE RequestAssumption DEF Init
<1>1. Typed
  <2>1. buffer \in Seq(Byte) /\ Len(buffer) = 0 /\ capacity \in Nat /\ capacity > 0
    OBVIOUS
  <2>2. sent \in Seq(Nat)
    OBVIOUS
  <2>3. /\ path \in String \cup {None} /\ (path # None => path.size <= path.capacity)
        /\ response \in Response \cup {None} /\ answer \in Answer \cup {None}
    OBVIOUS
  <2>4. Len(buffer) <= capacity
    BY <2>1
  <2>5. writer \in {"none", "got", "leaked"} /\ lock \in Holder /\ used \in Nat
    BY DEF Holder
  <2>6. TypeOK
    BY <2>1, <2>2, <2>3, <2>4, <2>5 DEF TypeOK
  <2> QED
    BY <2>1, <2>6 DEF Typed
<1>2. PhaseInv
  BY DEF PhaseInv
<1>3. HandlesOwned
  BY DEF HandlesOwned, Body
<1>4. SentInOrder
  BY DEF SentInOrder
<1> QED
  BY <1>1, <1>2, <1>3, <1>4 DEF IInv

----------------------------------------------------------------------------
(* The inductive invariant. *)
THEOREM Invariance == Spec => []IInv
<1>1. Init => IInv
  BY InitInv
<1>2. IInv /\ [Next]_vars => IInv'
  BY TypeStep, PhaseStep, HandlesStep, SentStep DEF IInv
<1> QED
  BY <1>1, <1>2, PTL DEF Spec

(* Every variable keeps its type, and a string has room for what is put in  *)
(* it, the terminator of a path apart (string.c:13-106, request.c:513-524). *)
THEOREM TypeCorrect == Spec => []TypeOK
<1>1. IInv => TypeOK
  BY DEF IInv, Typed
<1> QED
  BY <1>1, Invariance, PTL

(* A handle of the cache that was taken is in one place, and is released     *)
(* when the request is destroyed, whatever failed (request.c:108-155).      *)
THEOREM HandlesSafe == Spec => []HandlesOwned
<1>1. IInv => HandlesOwned
  BY DEF IInv
<1> QED
  BY <1>1, Invariance, PTL

(* What a client gets is a prefix of the answer, for every way in which      *)
(* write may split it and the buffer may grow (request.c:569-629).          *)
THEOREM OrderKept == Spec => []SentInOrder
<1>1. IInv => SentInOrder
  BY DEF IInv
<1> QED
  BY <1>1, Invariance, PTL

LEMMA DoneStep ==
    ASSUME IInv, [Next]_vars, state = "WRITE", state' = "DONE"
    PROVE  blocked' \/ Len(sent) = HeaderSize + IF answer.body THEN used ELSE 0
<1> USE RequestAssumption DEF control, IInv, Typed, TypeOK
<1>1. WriteBlocks \/ WriteEnds
  <2>1. vars' # vars
    BY DEF vars
  <2> HIDE DEF IInv, Typed, TypeOK
  <2>2. Next
    BY <2>1
  <2>3. ~Connect /\ ~ReadBlocks /\ ~ReadFails /\ \A bytes : ~Read(bytes)
    BY DEF Connect, ReadBlocks, ReadFails, Read
  <2>4. /\ ~ParseCrashes /\ ~ParseFails /\ ~Unsupported /\ ~NoFile /\ ~StatFails
        /\ \A n : ~Parse(n) /\ ~Fill(n)
    BY DEF ParseCrashes, ParseFails, Unsupported, NoFile, StatFails, Parse, Fill, Fails
  <2>5. /\ ~MissFails /\ ~LockWrite /\ ~Loaded /\ ~Queue /\ ~QueueFails /\ ~Mark /\ ~Ok
        /\ \A n, b, l : ~Miss(n, b, l) /\ ~Hit(n, b, l)
    BY DEF MissFails, LockWrite, Loaded, Queue, QueueFails, Mark, Ok, Miss, Hit, Fails
  <2>6. /\ ~FileFails /\ \A n : ~FileRead(n) /\ ~OthersLoad(n)
        /\ ~OthersFail /\ ~OthersUnlock
    BY DEF FileFails, FileRead, OthersLoad, OthersFail, OthersUnlock
  <2>7. ~WriteFails /\ ~WriteUnderflows /\ ~Close /\ \A n : ~WriteHeader(n) /\ ~WriteBody(n)
    BY DEF WriteFails, WriteUnderflows, Close, WriteHeader, WriteBody
  <2> QED
    BY <2>2, <2>3, <2>4, <2>5, <2>6, <2>7, Cases, Zenon
<1>2. CASE WriteBlocks
  BY <1>2 DEF WriteBlocks
<1>3. CASE WriteEnds
  <2>1. answer \in Answer /\ answer # None /\ HeaderLeft = 0 /\ BodyLeft = 0
    BY <1>3 DEF WriteEnds, Writing
  <2>2. /\ answer.header_bytes_written \in Nat /\ answer.body_bytes_written \in Nat
        /\ answer.body \in BOOLEAN
    BY <2>1 DEF Answer
  <2>3. /\ Len(sent) = answer.header_bytes_written + answer.body_bytes_written
        /\ answer.body_bytes_written > 0 => answer.body
    BY <2>1 DEF SentInOrder
  <2>4. used \in Nat
    OBVIOUS
  <2> HIDE RequestAssumption DEF IInv, Typed, TypeOK
  <2>5. HeaderSize = answer.header_bytes_written
    BY <2>1, <2>2, RequestAssumption DEF HeaderLeft
  <2>6. CASE answer.body
    BY <2>1, <2>2, <2>3, <2>4, <2>5, <2>6 DEF BodyLeft
  <2>7. CASE ~answer.body
    BY <2>2, <2>3, <2>5, <2>7
  <2> QED
    BY <2>2, <2>6, <2>7
<1> QED
  BY <1>1, <1>2, <1>3

(* A request is DONE when its whole answer is sent, or at a write that would *)
(* have blocked, and in no other way (request.c:599-626).                   *)
THEOREM AnswersWhole == Spec => DoneMeansSent
<1>1. IInv /\ [Next]_vars =>
        [state = "WRITE" /\ state' = "DONE" =>
            blocked' \/ Len(sent) = HeaderSize + IF answer.body THEN used ELSE 0]_vars
  BY DoneStep
<1> QED
  BY <1>1, Invariance, PTL DEF Spec, DoneMeansSent

----------------------------------------------------------------------------
(* The search for the end of the header.                                   *)

(* A set of naturals has a least element: induction over data, one set at a  *)
(* time.                                                                     *)
LEMMA LeastOf ==
    ASSUME NEW S \in SUBSET Nat, S # {}
    PROVE  \E m \in S : \A k \in S : m <= k
<1> DEFINE R == {ss \in Nat \X Nat : ss[1] < ss[2]}
<1>1. IsWellFoundedOn(R, Nat)
  BY NatLessThanWellFounded DEF OpToRel
<1>2. \A k, m \in Nat : <<k, m>> \in R <=> k < m
  OBVIOUS
<1> HIDE DEF R
<1>3. PICK m \in S : \A k \in S : ~ (<<k, m>> \in R)
  BY <1>1, WFMin
<1>4. \A k \in S : m <= k
  <2> TAKE k \in S
  <2>1. k \in Nat /\ m \in Nat
    OBVIOUS
  <2>2. ~(k < m)
    BY <1>2, <1>3, <2>1, Zenon
  <2> QED
    BY <2>1, <2>2
<1> QED
  BY <1>4
(* The end of a header at i, byte by byte. *)
EndAt(s, i) == s[i] = CR /\ s[i + 1] = LF /\ s[i + 2] = CR /\ s[i + 3] = LF

LEMMA FourBytes ==
    ASSUME NEW s \in Seq(Byte), NEW i \in Nat, i >= 1, i + 3 <= Len(s)
    PROVE  /\ SubSeq(s, i, i + 3) = <<CR, LF, CR, LF>> <=> EndAt(s, i)
           /\ s[i] = CR /\ SubSeq(s, i + 1, i + 3) = <<LF, CR, LF>> <=> EndAt(s, i)
<1> DEFINE a == SubSeq(s, i, i + 3)
           b == SubSeq(s, i + 1, i + 3)
           n == Len(s)
<1>0. n \in Nat /\ s \in Seq(Byte)
  OBVIOUS
<1>1. a = [j \in 1 .. 4 |-> s[i + j - 1]]
  BY <1>0
<1>2. b = [j \in 1 .. 3 |-> s[i + j]]
  BY <1>0
<1> HIDE DEF a, b, n
<1>3. a = <<CR, LF, CR, LF>> <=> a[1] = CR /\ a[2] = LF /\ a[3] = CR /\ a[4] = LF
  BY <1>1
<1>4. b = <<LF, CR, LF>> <=> b[1] = LF /\ b[2] = CR /\ b[3] = LF
  BY <1>2
<1>5. a[1] = s[i] /\ a[2] = s[i + 1] /\ a[3] = s[i + 2] /\ a[4] = s[i + 3]
  BY <1>1
<1>6. b[1] = s[i + 1] /\ b[2] = s[i + 2] /\ b[3] = s[i + 3]
  BY <1>2
<1> QED
  BY <1>3, <1>4, <1>5, <1>6 DEF a, b, EndAt

(* One turn of the loop of strnstr at i, which has rest for the bytes behind. *)
Turn(s, i, rest) ==
    /\ i <= Len(s) /\ s[i] # NUL
    /\ \/ s[i] # CR /\ rest
       \/ /\ s[i] = CR /\ Len(s) - i >= 3
          /\ SubSeq(s, i + 1, i + 3) = <<LF, CR, LF>> \/ rest

(* There is an end of a header at i or behind, and no NUL from i to it. *)
EndFrom(s, i) == \E k \in i .. Len(s) - 3 : EndAt(s, k) /\ \A j \in i .. k : s[j] # NUL

LEMMA TurnFinds ==
    ASSUME NEW s \in Seq(Byte), NEW i \in 1 .. Len(s) + 1
    PROVE  EndFrom(s, i) <=> Turn(s, i, EndFrom(s, i + 1))
<1> DEFINE n == Len(s)
<1>0. n \in Nat /\ i \in Nat /\ i >= 1
  OBVIOUS
<1>1. ASSUME EndFrom(s, i) PROVE Turn(s, i, EndFrom(s, i + 1))
  <2>1. PICK k \in i .. n - 3 : EndAt(s, k) /\ \A j \in i .. k : s[j] # NUL
    BY <1>1 DEF EndFrom
  <2>2. i <= n /\ n - i >= 3 /\ s[i] # NUL
    BY <1>0, <2>1
  <2>3. CASE k = i
    <3>1. s[i] = CR /\ SubSeq(s, i + 1, i + 3) = <<LF, CR, LF>>
      BY <1>0, <2>1, <2>2, <2>3, FourBytes
    <3> QED
      BY <2>2, <3>1 DEF Turn
  <2>4. CASE k > i
    <3>1. k \in i + 1 .. n - 3 /\ i + 1 .. k \subseteq i .. k
      BY <1>0, <2>1, <2>4
    <3>2. EndFrom(s, i + 1)
      BY <2>1, <3>1 DEF EndFrom
    <3> QED
      BY <2>2, <3>2 DEF Turn
  <2> QED
    BY <1>0, <2>1, <2>3, <2>4
<1>2. ASSUME Turn(s, i, EndFrom(s, i + 1)) PROVE EndFrom(s, i)
  <2>1. i <= n /\ s[i] # NUL
    BY <1>2 DEF Turn
  <2>2. CASE EndFrom(s, i + 1)
    <3>1. PICK k \in i + 1 .. n - 3 : EndAt(s, k) /\ \A j \in i + 1 .. k : s[j] # NUL
      BY <2>2 DEF EndFrom
    <3>2. k \in i .. n - 3 /\ \A j \in i .. k : j = i \/ j \in i + 1 .. k
      BY <1>0, <3>1
    <3> QED
      BY <2>1, <3>1, <3>2 DEF EndFrom
  <2>3. CASE ~EndFrom(s, i + 1)
    <3>1. s[i] = CR /\ n - i >= 3 /\ SubSeq(s, i + 1, i + 3) = <<LF, CR, LF>>
      BY <1>2, <2>3 DEF Turn
    <3>2. EndAt(s, i)
      BY <1>0, <3>1, FourBytes
    <3>3. i \in i .. n - 3 /\ \A j \in i .. i : j = i
      BY <1>0, <3>1
    <3> QED
      BY <2>1, <3>2, <3>3 DEF EndFrom
  <2> QED
    BY <2>2, <2>3
<1> QED
  BY <1>1, <1>2

(* strnstr finds the end of a header exactly if there is one before a NUL. *)
LEMMA StrnstrFinds ==
    ASSUME NEW s \in Seq(Byte)
    PROVE  Strnstr(s) <=> Complete(s)
<1> DEFINE n == Len(s)
           D == 1 .. n + 1
           IsFound(f) == f = [i \in D |-> Turn(s, i, f[i + 1])]
           found == CHOOSE f : IsFound(f)
           w == [i \in D |-> EndFrom(s, i)]
<1>0. n \in Nat
  OBVIOUS
<1>1. Strnstr(s) = found[1]
  BY DEF Strnstr, Turn
<1>2. \A i \in D : w[i] = EndFrom(s, i)
  OBVIOUS
<1> HIDE DEF w
<1>3. \A i \in D : EndFrom(s, i) <=> Turn(s, i, w[i + 1])
  <2> TAKE i \in D
  <2>1. CASE i = n + 1
    <3>1. ~(i <= Len(s))
      BY <1>0, <2>1
    <3> QED
      BY <3>1, TurnFinds DEF Turn
  <2>2. CASE i # n + 1
    <3>1. i + 1 \in D
      BY <1>0, <2>2
    <3>2. w[i + 1] = EndFrom(s, i + 1)
      BY <1>2, <3>1
    <3> QED
      BY <3>2, TurnFinds
  <2> QED
    BY <2>1, <2>2
<1>4. IsFound(w)
  <2>1. \A i \in D : EndFrom(s, i) = Turn(s, i, w[i + 1])
    <3> TAKE i \in D
    <3>1. EndFrom(s, i) \in BOOLEAN /\ Turn(s, i, w[i + 1]) \in BOOLEAN
      BY DEF EndFrom, Turn
    <3> QED
      BY <1>3, <3>1
  <2> QED
    BY <2>1 DEF w
<1>5. IsFound(found)
  BY <1>4
<1> HIDE DEF found, w
<1>6. \A i \in D : found[i] = Turn(s, i, found[i + 1])
  BY <1>5
<1>7. \A i \in D : found[i] <=> EndFrom(s, i)
  <2> DEFINE S == {k \in 0 .. n : ~(found[n + 1 - k] <=> EndFrom(s, n + 1 - k))}
  <2>1. ASSUME S # {} PROVE FALSE
    <3>1. S \in SUBSET Nat
      BY <1>0
    <3>2. PICK m \in S : \A k \in S : m <= k
      BY <2>1, <3>1, LeastOf
    <3> DEFINE i == n + 1 - m
    <3>3. m \in 0 .. n /\ i \in D /\ i \in Nat /\ ~(found[i] <=> EndFrom(s, i))
      BY <1>0, <3>2
    <3> HIDE DEF i
    <3>4. CASE m = 0
      <4>1. i = n + 1 /\ ~(i <= Len(s))
        BY <1>0, <3>4 DEF i
      <4>2. ~found[i]
        BY <1>6, <3>3, <4>1 DEF Turn
      <4>3. ~EndFrom(s, i)
        BY <1>3, <3>3, <4>1 DEF Turn
      <4> QED
        BY <3>3, <4>2, <4>3
    <3>5. CASE m # 0
      <4>1. /\ m - 1 \in 0 .. n /\ ~(m <= m - 1) /\ n + 1 - (m - 1) = i + 1
            /\ i \in 1 .. Len(s) + 1
        BY <1>0, <3>3, <3>5 DEF i
      <4>2. found[i + 1] <=> EndFrom(s, i + 1)
        BY <3>2, <4>1
      <4>3. Turn(s, i, found[i + 1]) <=> Turn(s, i, EndFrom(s, i + 1))
        BY <4>2 DEF Turn
      <4>4. found[i] <=> Turn(s, i, found[i + 1])
        BY <1>6, <3>3
      <4> QED
        BY <3>3, <4>1, <4>3, <4>4, TurnFinds
    <3> QED
      BY <3>4, <3>5
  <2>2. ASSUME NEW i \in D PROVE found[i] <=> EndFrom(s, i)
    <3>1. n + 1 - i \in 0 .. n /\ n + 1 - (n + 1 - i) = i
      BY <1>0
    <3> QED
      BY <2>1, <3>1
  <2> QED
    BY <2>2
<1>8. EndFrom(s, 1) <=> Complete(s)
  <2>1. \A k \in 1 .. n - 3 : SubSeq(s, k, k + 3) = <<CR, LF, CR, LF>> <=> EndAt(s, k)
    BY <1>0, FourBytes
  <2> QED
    BY <2>1 DEF EndFrom, Complete
<1> QED
  BY <1>0, <1>1, <1>7, <1>8

(* Nothing is read before the first turn, and the search has been made for   *)
(* every buffer that a read has left.                                       *)
HeaderInv == HeaderEndFound /\ (state = "CONNECT" => buffer = <<>>)

LEMMA HeaderStep ==
    ASSUME IInv, HeaderInv, [Next]_vars
    PROVE  HeaderInv'
<1> USE DEF control, readVars
<1>1. CASE UNCHANGED vars
  BY <1>1 DEF vars, HeaderInv, HeaderEndFound, Complete
<1>2. ASSUME Connect PROVE HeaderInv'
  <2>1. buffer' = <<>> /\ place' = "turn" /\ state' = "READ"
    BY <1>2 DEF Connect, Goes, HeaderInv
  <2> QED
    BY <2>1 DEF HeaderInv, HeaderEndFound, Complete
<1>3. ASSUME NEW m \in Nat, NEW bytes \in [1 .. m -> Byte], Read(bytes) PROVE HeaderInv'
  <2>1. buffer' \in Seq(Byte)
    <3>1. buffer \in Seq(Byte) /\ bytes \in Seq(Byte)
      BY DEF IInv, Typed, TypeOK
    <3> QED
      BY <1>3, <3>1 DEF Read
  <2>2. Strnstr(buffer') <=> Complete(buffer')
    BY <2>1, StrnstrFinds
  <2>3. state' = "READ" /\ (place' = "turn" <=> ~Strnstr(buffer'))
    BY <1>3 DEF Read, Goes
  <2> QED
    BY <2>2, <2>3 DEF HeaderInv, HeaderEndFound, Complete
<1>4. ASSUME ReadBlocks PROVE HeaderInv'
  BY <1>4 DEF ReadBlocks, HeaderInv, HeaderEndFound
<1>5. ASSUME state' \notin {"CONNECT", "READ"} PROVE HeaderInv'
  BY <1>5 DEF HeaderInv, HeaderEndFound
<1>6. ASSUME UNCHANGED <<state, buffer, early>>, place # "turn", place' # "turn" PROVE HeaderInv'
  BY <1>6 DEF HeaderInv, HeaderEndFound, Complete
<1>7. ASSUME UNCHANGED <<state, place, buffer, early>> PROVE HeaderInv'
  BY <1>7 DEF HeaderInv, HeaderEndFound, Complete
<1>8. ASSUME \/ ReadFails \/ ParseCrashes \/ ParseFails \/ Unsupported \/ NoFile \/ StatFails
             \/ MissFails \/ QueueFails \/ Mark \/ Ok \/ FileFails \/ WriteBlocks \/ WriteFails
             \/ WriteUnderflows \/ WriteEnds \/ Close \/ \E n \in FileSizes : FileRead(n)
      PROVE  state' \notin {"CONNECT", "READ"}
  BY <1>8 DEF ReadFails, ParseCrashes, ParseFails, Unsupported, NoFile, StatFails, MissFails,
    QueueFails, Mark, Ok, FileFails, WriteBlocks, WriteFails, WriteUnderflows, WriteEnds, Close,
    FileRead, Fails
<1>9. ASSUME \/ LockWrite \/ Loaded \/ Queue
             \/ \E n \in Paths : Parse(n)
             \/ \E n \in FileSizes : Fill(n)
             \/ \E n \in Nat, b \in BOOLEAN, l \in Holder : Hit(n, b, l)
             \/ \E n \in Nat, b \in BOOLEAN, l \in Holder : Miss(n, b, l)
      PROVE  UNCHANGED <<state, buffer, early>> /\ place # "turn" /\ place' # "turn"
  BY <1>9 DEF LockWrite, Loaded, Queue, Parse, Fill, Hit, Miss, Goes
<1>10. ASSUME \/ OthersFail \/ OthersUnlock
              \/ \E n \in FileSizes : OthersLoad(n)
              \/ \E n \in Nat : WriteHeader(n)
              \/ \E n \in Nat : WriteBody(n)
       PROVE  UNCHANGED <<state, place, buffer, early>>
  BY <1>10 DEF OthersFail, OthersUnlock, OthersLoad, WriteHeader, WriteBody, Writing, Goes
<1> HIDE DEF control, readVars
<1>11. CASE Next
  <2>1. ASSUME NEW n \in Nat \ {0}, WriteHeader(n) \/ WriteBody(n) PROVE HeaderInv'
    BY <1>7, <1>10, <2>1
  <2>2. ASSUME NEW n \in FileSizes, FileRead(n) \/ Fill(n) \/ OthersLoad(n) PROVE HeaderInv'
    BY <1>5, <1>6, <1>7, <1>8, <1>9, <1>10, <2>2
  <2>3. ASSUME \/ \E n \in Paths : Parse(n)
               \/ \E n \in Nat, b \in BOOLEAN, l \in Holder : Hit(n, b, l)
               \/ \E n \in Nat, b \in BOOLEAN, l \in Holder : Miss(n, b, l)
        PROVE  HeaderInv'
    BY <1>6, <1>9, <2>3
  <2>4. ASSUME LockWrite \/ Loaded \/ Queue \/ OthersFail \/ OthersUnlock PROVE HeaderInv'
    BY <1>6, <1>7, <1>9, <1>10, <2>4
  <2>5. ASSUME \/ ReadFails \/ ParseCrashes \/ ParseFails \/ Unsupported \/ NoFile \/ StatFails
               \/ MissFails \/ QueueFails \/ Mark \/ Ok \/ FileFails \/ WriteBlocks \/ WriteFails
               \/ WriteUnderflows \/ WriteEnds \/ Close
        PROVE  HeaderInv'
    BY <1>5, <1>8, <2>5
  <2> QED
    BY <1>2, <1>3, <1>4, <1>11, <2>1, <2>2, <2>3, <2>4, <2>5, Cases, Zenon
<1> QED
  BY <1>1, <1>11

(* A header is processed in the turn that reads its last byte and not before, *)
(* for every string of bytes and every way in which reads may split it       *)
(* (request.c:513-543, strutils.c:7-24).                                    *)
THEOREM HeaderFound == Spec => []HeaderEndFound
<1>1. Init => HeaderInv
  BY DEF Init, HeaderInv, HeaderEndFound
<1>2. IInv /\ HeaderInv /\ [Next]_vars => HeaderInv'
  BY HeaderStep
<1>3. HeaderInv => HeaderEndFound
  BY DEF HeaderInv
<1> QED
  BY <1>1, <1>2, <1>3, Invariance, PTL DEF Spec
=============================================================================

------------------------------- MODULE Request -------------------------------
(***************************************************************************)
(* One request and its answer: src/server/request.c with the strings of    *)
(* src/utils, driven by the handlers of src/server/worker.c.               *)
(*                                                                         *)
(* A request is used by one thread at a time, so that a handler is one     *)
(* step, or a few that place tells apart.  The cache, the other requests   *)
(* that fill one of its buffers and the reader are the environment: Cache, *)
(* HttpWorker and ReaderPool have them.  Any malloc may fail.              *)
(* The buffer of the body has a write lock, which belongs to a thread: this *)
(* worker's, which may have taken it for another of its requests as well,   *)
(* or another's.                                                            *)
(*                                                                         *)
(* Abstracted: the bytes of a request but for those that end its header;   *)
(* the parser, to a choice among its outcomes; an answer, to the number of *)
(* its bytes.  A string is its size and its capacity.  Other requests load *)
(* the buffer once at most after this one has found it.                     *)
(***************************************************************************)
EXTENDS Integers, Sequences

CONSTANTS
    Byte,               \* what a client sends
    CR, LF, NUL,
    MaxRequest,         \* bound: the bytes a client sends
    BufferSize,         \* INITITAL_REQUEST_BUFFER_SIZE
    PathSize,           \* INITITAL_PARSED_BUFFERS_SIZE
    Paths,              \* the lengths of the paths that are asked for
    Root, Index,        \* the lengths of static_root and of "/index.html"
    HeaderSize,         \* the bytes of the header of an answer
    FileSizes,          \* the sizes of files
    None

ASSUME RequestAssumption ==
    /\ {CR, LF, NUL} \subseteq Byte /\ CR # LF
    /\ MaxRequest \in Nat
    /\ BufferSize \in Nat \ {0} /\ PathSize \in Nat \ {0}
    /\ Paths \subseteq Nat \ {0}
    /\ Root \in Nat /\ Index \in Nat /\ HeaderSize \in Nat \ {0}
    /\ FileSizes \subseteq Nat

String == [size : Nat, capacity : Nat]                      \* DynamicString
Response == [content_length : Nat, body : BOOLEAN]          \* HttpResponseData
Answer == [body : BOOLEAN, header_bytes_written : Nat, body_bytes_written : Nat]
Holder == {"free", "here", "elsewhere"}                     \* of a write lock
ASSUME NoneAssumption == None \notin String \cup Response \cup Answer

VARIABLES
    state,      \* request->state; gone once destroyed, killed with the process
    place,      \* the part of the handler that is next, or between two turns
    buffer, capacity,   \* raw_request->request_buffer
    path,       \* parsed_request->path
    response,   \* request->response
    answer,     \* request->raw_response
    handles,    \* the ReadBuffers that were got and not released
    writer,     \* the WriteBuffer: none, got, or leaked
    lock,       \* its write lock: free, or with the thread here or elsewhere
    used,       \* *buffer->used
    loading,    \* another request fills the buffer
    queued,     \* QueueFile has the file, and calls back
    sent,       \* history: the bytes sent, each by its place in the answer
    early,      \* history: read would have blocked
    blocked,    \* history: write would have blocked
    broken      \* history: write has failed

control == <<state, place>>
readVars == <<buffer, capacity, path, early>>
answerVars == <<response, answer, handles>>
loadVars == <<writer, used, loading, queued>>
cacheVars == <<lock, loadVars>>
writeVars == <<sent, blocked, broken>>
vars == <<control, readVars, answerVars, cacheVars, writeVars>>

----------------------------------------------------------------------------
(* Strings: string.c and strutils.c.                                       *)

NewString(n) == [size |-> 0, capacity |-> n]

Most(m, n) == IF m > n THEN m ELSE n

SetString(s, n) == [size |-> n, capacity |-> Most(s.capacity, n)]

(* Mutant: room for the prefix alone. *)
PrefixStringAlone(s, n) == [size |-> s.size + n, capacity |-> Most(s.capacity, n)]

PrefixString(s, n) == [size |-> s.size + n, capacity |-> Most(s.capacity, s.size + n)]

(* Mutant: a match that ends the buffer is not seen. *)
StrnstrShort(s) ==
    LET found[i \in 1 .. Len(s) + 1] ==
            /\ i <= Len(s) /\ s[i] # NUL
            /\ \/ s[i] # CR /\ found[i + 1]
               \/ /\ s[i] = CR /\ Len(s) - i > 3
                  /\ SubSeq(s, i + 1, i + 3) = <<LF, CR, LF>> \/ found[i + 1]
    IN found[1]

(* strnstr of "\r\n\r\n", from each byte on. *)
Strnstr(s) ==
    LET found[i \in 1 .. Len(s) + 1] ==
            /\ i <= Len(s) /\ s[i] # NUL
            /\ \/ s[i] # CR /\ found[i + 1]
               \/ /\ s[i] = CR /\ Len(s) - i >= 3
                  /\ SubSeq(s, i + 1, i + 3) = <<LF, CR, LF>> \/ found[i + 1]
    IN found[1]

Init ==
    /\ state = "CONNECT" /\ place = "turn"
    /\ buffer = <<>> /\ capacity = BufferSize /\ path = None /\ early = FALSE
    /\ response = None /\ answer = None /\ handles = 0
    /\ writer = "none" /\ lock = "free" /\ used = 0 /\ loading = FALSE /\ queued = FALSE
    /\ sent = <<>> /\ blocked = FALSE /\ broken = FALSE

Goes(from, to) == place = from /\ place' = to
Fails(from) == Goes(from, "turn") /\ state' = "ERROR"

----------------------------------------------------------------------------
(* CONNECT and READ: _ConnectRequest, _ReadRequest, ReadRequest.           *)

Connect ==
    /\ Goes("turn", "turn")
    /\ state = "CONNECT" /\ state' = "READ"
    /\ UNCHANGED <<readVars, answerVars, cacheVars, writeVars>>

(* A full buffer is doubled before the read. *)
Room == IF Len(buffer) = capacity THEN 2 * capacity ELSE capacity

(* Some bytes, or none from a client that has closed. *)
Read(bytes) ==
    /\ state = "READ"
    /\ Len(bytes) <= Room - Len(buffer)
    /\ buffer' = buffer \o bytes
    /\ capacity' = Room
    /\ Goes("turn", IF Strnstr(buffer') THEN "process" ELSE "turn")
    /\ UNCHANGED <<state, path, early, answerVars, cacheVars, writeVars>>

(* EAGAIN has the code of the end of the header. *)
ReadBlocks ==
    /\ state = "READ"
    /\ Goes("turn", "process")
    /\ capacity' = Room
    /\ early' = TRUE
    /\ UNCHANGED <<state, buffer, path, answerVars, cacheVars, writeVars>>

(* No room, or an error of read. *)
ReadFails ==
    /\ state = "READ"
    /\ Fails("turn")
    /\ capacity' \in {capacity, Room}
    /\ UNCHANGED <<buffer, path, early, answerVars, cacheVars, writeVars>>

----------------------------------------------------------------------------
(* _ProcessRequest.                                                        *)

(* The body that is let go when a response or an answer is replaced. *)
Body(r) == IF r # None /\ r.body THEN 1 ELSE 0

Prepare(body) ==
    answer' = [body |-> body, header_bytes_written |-> 0, body_bytes_written |-> 0]

(* Mutant: the body stays with the response as well. *)
PrepareOkKeepsBody ==
    /\ Prepare(response.body)
    /\ handles' = handles - Body(answer)
    /\ UNCHANGED response

(* PrepareHttpResponseOk: the body goes over to what is sent. *)
PrepareOk ==
    /\ Prepare(response.body)
    /\ response' = [response EXCEPT !.body = FALSE]
    /\ handles' = handles - Body(answer)

(* PrepareHttpResponseForbidden, NotFound and UnsupportedMethod. *)
PreparePlain ==
    /\ Prepare(FALSE)
    /\ handles' = handles - Body(answer)
    /\ UNCHANGED response

(* Nothing was read: there is no parsed_request to look at.  Or a token is  *)
(* missing, and the test is on the rest of the line in place of the token.  *)
ParseCrashes ==
    /\ Goes("process", "turn")
    /\ state' = "killed"
    /\ UNCHANGED <<readVars, answerVars, cacheVars, writeVars>>

ParseFails ==
    /\ buffer # <<>>
    /\ Fails("process")
    /\ UNCHANGED <<readVars, answerVars, cacheVars, writeVars>>

(* A method or a version that is not supported. *)
Unsupported ==
    /\ buffer # <<>>
    /\ Goes("process", "turn")
    /\ state' = "WRITE" /\ PreparePlain
    /\ UNCHANGED <<readVars, cacheVars, writeVars>>

(* A path of n bytes; that of "/" is replaced, and static_root put before. *)
Parse(n) ==
    LET asked == SetString(NewString(PathSize), n) IN
    /\ buffer # <<>>
    /\ Goes("process", "stat")
    /\ path' = PrefixString(IF n = 1 THEN SetString(asked, Index) ELSE asked, Root)
    /\ UNCHANGED <<state, buffer, capacity, early, answerVars, cacheVars, writeVars>>

(* No such file, or not a regular one. *)
NoFile ==
    /\ Goes("stat", "turn")
    /\ state' = "WRITE" /\ PreparePlain
    /\ UNCHANGED <<readVars, cacheVars, writeVars>>

(* GetFileStat, or a malloc from there on, fails. *)
StatFails ==
    /\ Fails("stat")
    /\ UNCHANGED <<readVars, answerVars, cacheVars, writeVars>>

(* FillHttpResponseHeader for a file of n bytes; then HEAD, or GET. *)
Fill(n) ==
    /\ Goes("stat", "ok") \/ Goes("stat", "lookup")
    /\ response' = [content_length |-> n, body |-> FALSE]
    /\ handles' = handles - Body(response)
    /\ UNCHANGED <<state, answer, readVars, cacheVars, writeVars>>

(* AddHttpResponseBody for a handle that GetBuffer gave, n bytes loaded. *)
AddBody(n) ==
    /\ response' = [response EXCEPT !.body = TRUE]
    /\ handles' = handles + 1 - Body(response)
    /\ used' = n
    /\ UNCHANGED answer

(* A hit; of a buffer that another request loads, or loads again, as well, *)
(* or that a read has left locked.                                          *)
Hit(n, being_loaded, locked) ==
    /\ Goes("lookup", "ok")
    /\ AddBody(n)
    /\ loading' = being_loaded /\ lock' = locked
    /\ UNCHANGED <<state, readVars, writer, queued, writeVars>>

(* A miss, CreateBuffer and both lookups, which may find the buffer of a     *)
(* worker that has missed the file too; or one of them fails.               *)
Miss(n, being_loaded, locked) ==
    /\ Goes("lookup", "lock")
    /\ AddBody(n)
    /\ writer' = "got"
    /\ loading' = being_loaded /\ lock' = locked
    /\ UNCHANGED <<state, queued, readVars, writeVars>>

MissFails ==
    /\ Fails("lookup")
    /\ UNCHANGED <<readVars, answerVars, cacheVars, writeVars>>

(* LockWriteBuffer waits for the thread that has the lock. *)
LockWrite ==
    /\ Goes("lock", "load")
    /\ lock = "free" /\ lock' = "here"
    /\ UNCHANGED <<state, readVars, answerVars, loadVars, writeVars>>

(* Somebody has loaded the file before this request had the lock. *)
Loaded ==
    /\ Goes("load", "ok")
    /\ used = response.content_length
    /\ writer' = "none" /\ lock' = "free"
    /\ UNCHANGED <<state, readVars, answerVars, used, loading, queued, writeVars>>

Queue ==
    /\ Goes("load", "mark")
    /\ used # response.content_length
    /\ queued' = TRUE
    /\ UNCHANGED <<state, readVars, answerVars, writer, lock, used, loading, writeVars>>

(* QueueFile refuses; or malloc fails before, and the lock is not freed. *)
QueueFails ==
    /\ Fails("load")
    /\ used # response.content_length
    /\ writer' = "none" /\ lock' \in {"free", "here"}
    /\ UNCHANGED <<readVars, answerVars, used, loading, queued, writeVars>>

Mark ==
    /\ Goes("mark", "turn")
    /\ state' = "WAITING_FOR_BODY"
    /\ UNCHANGED <<readVars, answerVars, cacheVars, writeVars>>

(* The result of PrepareHttpResponseOk is not looked at. *)
Ok ==
    /\ Goes("ok", "turn")
    /\ state' = "WRITE"
    /\ PrepareOk \/ UNCHANGED answerVars
    /\ UNCHANGED <<readVars, cacheVars, writeVars>>

(* _ReadFileCallback, on the thread of a reader, before Mark or after.  It   *)
(* unlocks a lock it does not own, which is undefined: that may do nothing.  *)
FileRead(n) ==
    /\ queued /\ queued' = FALSE
    /\ used' = n
    /\ writer' = "none" /\ lock' \in {lock, "free"}
    /\ \/ state' = "WRITE" /\ PrepareOk
       \/ state' = "ERROR" /\ UNCHANGED answerVars
    /\ UNCHANGED <<place, readVars, loading, writeVars>>

(* The file cannot be read: the write lock is neither freed nor released. *)
FileFails ==
    /\ queued /\ queued' = FALSE
    /\ writer' = "leaked"
    /\ \/ state' = "WRITE" /\ PreparePlain
       \/ state' = "ERROR" /\ UNCHANGED answerVars
    /\ UNCHANGED <<place, readVars, lock, used, loading, writeVars>>

(* The other request that loads the buffer gets its file, ... *)
OthersLoad(n) ==
    /\ loading /\ loading' = FALSE
    /\ used' = n
    /\ lock' \in {lock, "free"}
    /\ UNCHANGED <<control, readVars, answerVars, writer, queued, writeVars>>

(* ... or an error, after which its callback leaves the lock as it is. *)
OthersFail ==
    /\ loading /\ loading' = FALSE
    /\ UNCHANGED <<control, readVars, answerVars, lock, writer, used, queued, writeVars>>

(* The thread that has the lock sends another answer from the buffer: it     *)
(* does not get the read lock, and its unlock frees the lock it has.        *)
OthersUnlock ==
    /\ \/ lock = "elsewhere"
       \/ lock = "here" /\ place = "turn"
    /\ lock' = "free"
    /\ UNCHANGED <<control, readVars, answerVars, loadVars, writeVars>>

----------------------------------------------------------------------------
(* WRITE, DONE and ERROR: _WriteRequest, WriteRequest, _DoneRequest.       *)

Writing == state = "WRITE" /\ Goes("turn", "turn") /\ answer # None

HeaderLeft == HeaderSize - answer.header_bytes_written
BodyLeft == IF answer.body THEN used - answer.body_bytes_written ELSE 0

(* The n bytes of the answer that follow the first k. *)
Bytes(k, n) == [i \in 1 .. n |-> k + i]

(* The body is sent under the read lock: another thread that has the lock is *)
(* waited for, and the unlock frees the one this thread has.                *)
UnderReadLock ==
    IF HeaderLeft = 0 /\ answer.body
    THEN lock # "elsewhere" /\ lock' = "free"
    ELSE UNCHANGED lock

WriteHeader(n) ==
    /\ Writing
    /\ answer' = [answer EXCEPT !.header_bytes_written = @ + n]
    /\ sent' = sent \o Bytes(answer.header_bytes_written, n)
    /\ UNCHANGED <<state, readVars, response, handles, cacheVars, blocked, broken>>

(* Mutant: body_from does not move on. *)
WriteBodyAgain(n) ==
    /\ Writing
    /\ HeaderLeft = 0 /\ UnderReadLock
    /\ answer' = [answer EXCEPT !.body_bytes_written = @ + n]
    /\ sent' = sent \o Bytes(HeaderSize, n)
    /\ UNCHANGED <<state, readVars, response, handles, loadVars, blocked, broken>>

WriteBody(n) ==
    /\ Writing
    /\ HeaderLeft = 0 /\ UnderReadLock
    /\ answer' = [answer EXCEPT !.body_bytes_written = @ + n]
    /\ sent' = sent \o Bytes(HeaderSize + answer.body_bytes_written, n)
    /\ UNCHANGED <<state, readVars, response, handles, loadVars, blocked, broken>>

(* EAGAIN has the code of the end of the answer. *)
WriteBlocks ==
    /\ Writing /\ UnderReadLock
    /\ HeaderLeft > 0 \/ BodyLeft > 0
    /\ state' = "DONE"
    /\ blocked' = TRUE
    /\ UNCHANGED <<readVars, answerVars, loadVars, sent, broken>>

(* An error of write is not looked at; if the client has gone the process    *)
(* gets SIGPIPE, for which it has no handler.                               *)
WriteFails ==
    /\ Writing /\ UnderReadLock
    /\ HeaderLeft > 0 \/ BodyLeft > 0
    /\ state' \in {"WRITE", "killed"}
    /\ broken' = TRUE
    /\ UNCHANGED <<readVars, answerVars, loadVars, sent, blocked>>

(* The buffer was loaded again and is shorter now: body_left is a size_t,   *)
(* and what write takes then is undefined.                                  *)
WriteUnderflows ==
    /\ Writing /\ UnderReadLock
    /\ HeaderLeft = 0 /\ BodyLeft < 0
    /\ state' = "killed"
    /\ UNCHANGED <<readVars, answerVars, loadVars, writeVars>>

(* Mutant: an answer ends with its header. *)
WriteEndsEarly ==
    /\ Writing /\ UnderReadLock
    /\ HeaderLeft = 0
    /\ state' = "DONE"
    /\ UNCHANGED <<readVars, answerVars, loadVars, writeVars>>

WriteEnds ==
    /\ Writing /\ UnderReadLock
    /\ HeaderLeft = 0 /\ BodyLeft = 0
    /\ state' = "DONE"
    /\ UNCHANGED <<readVars, answerVars, loadVars, writeVars>>

(* Mutant: only _DoneRequest closes. *)
CloseDone ==
    /\ Goes("turn", "turn")
    /\ state = "DONE" /\ state' = "gone"
    /\ path' = None /\ response' = None /\ answer' = None
    /\ handles' = handles - Body(response) - Body(answer)
    /\ UNCHANGED <<buffer, capacity, early, cacheVars, writeVars>>

(* _DoneRequest and _ErrorRequest, with DestroyHttpRequest. *)
Close ==
    /\ Goes("turn", "turn")
    /\ state \in {"DONE", "ERROR"} /\ state' = "gone"
    /\ path' = None /\ response' = None /\ answer' = None
    /\ handles' = handles - Body(response) - Body(answer)
    /\ UNCHANGED <<buffer, capacity, early, cacheVars, writeVars>>

----------------------------------------------------------------------------
Receive == \/ \E n \in 0 .. MaxRequest - Len(buffer) : \E bytes \in [1 .. n -> Byte] : Read(bytes)
           \/ ReadBlocks \/ ReadFails

Process == \/ ParseCrashes \/ ParseFails \/ Unsupported \/ \E n \in Paths : Parse(n)
           \/ NoFile \/ StatFails \/ \E n \in FileSizes : Fill(n)
           \/ \E n \in FileSizes \cup {0}, b \in BOOLEAN :
                 \/ \E l \in Holder : Hit(n, b, l)
                 \/ \E l \in Holder \ {"here"} : Miss(n, b, l)
           \/ MissFails \/ LockWrite \/ Loaded \/ Queue \/ QueueFails \/ Mark \/ Ok

Callback == FileFails \/ \E n \in FileSizes : FileRead(n)

Send == /\ answer # None
        /\ \/ \E n \in 1 .. HeaderLeft : WriteHeader(n)
           \/ \E n \in 1 .. BodyLeft : WriteBody(n)

Write == Send \/ WriteBlocks \/ WriteFails \/ WriteUnderflows \/ WriteEnds

Others == OthersFail \/ \E n \in FileSizes : OthersLoad(n)

Next == Connect \/ Receive \/ Process \/ Callback \/ Write \/ Close \/ Others \/ OthersUnlock

Spec == Init /\ [][Next]_vars

(* The worker comes round to the request, the pool answers each request for *)
(* a file, and the client takes what can be written again and again.  A      *)
(* write, or LockWrite, waits for a lock that nobody need free.             *)
FairSpec ==
    /\ Spec
    /\ WF_vars(Connect) /\ WF_vars(Process) /\ WF_vars(Callback) /\ WF_vars(Close)
    /\ WF_vars(Others)
    /\ WF_vars(Write) /\ SF_vars(Send)

----------------------------------------------------------------------------
(* A string has room for what is in it (string.c:7). *)
TypeOK ==
    /\ state \in {"CONNECT", "READ", "WAITING_FOR_BODY", "WRITE", "DONE", "ERROR", "gone", "killed"}
    /\ place \in {"turn", "process", "stat", "lookup", "lock", "load", "mark", "ok"}
    /\ buffer \in Seq(Byte) /\ capacity \in Nat /\ Len(buffer) <= capacity
    /\ path \in String \cup {None} /\ (path # None => path.size <= path.capacity)
    /\ early \in BOOLEAN
    /\ response \in Response \cup {None} /\ answer \in Answer \cup {None}
    /\ handles \in Nat
    /\ writer \in {"none", "got", "leaked"} /\ lock \in Holder
    /\ used \in Nat
    /\ loading \in BOOLEAN /\ queued \in BOOLEAN
    /\ sent \in Seq(Nat) /\ blocked \in BOOLEAN /\ broken \in BOOLEAN

Complete(s) ==
    \E i \in 1 .. Len(s) - 3 : /\ SubSeq(s, i, i + 3) = <<CR, LF, CR, LF>>
                               /\ \A j \in 1 .. i : s[j] # NUL

(* A header is processed in the turn that reads its last byte and not before, *)
(* in whatever pieces it comes, unless a read would have blocked             *)
(* (request.c:513-543, strutils.c:7-24).                                    *)
HeaderEndFound == state = "READ" /\ ~early => (place = "turn" <=> ~Complete(buffer))

(* Each handle of the cache that a request has taken is in one place of it,  *)
(* and released once, whatever fails on the way: nothing pins a buffer after *)
(* the end, and nothing lets go of one twice (request.c:126-155, 265-276,   *)
(* 363-373).                                                                *)
HandlesOwned ==
    /\ handles = Body(response) + Body(answer)
    /\ state = "gone" => handles = 0

(* What is sent are the bytes of the answer in their order, none left out   *)
(* and none twice, in whatever pieces they are taken and although the       *)
(* buffer may grow meanwhile (request.c:582-619).                           *)
SentInOrder ==
    /\ \A i \in 1 .. Len(sent) : sent[i] = i
    /\ answer = None => sent = <<>> \/ state = "gone"
    /\ answer # None =>
          /\ Len(sent) = answer.header_bytes_written + answer.body_bytes_written
          /\ answer.header_bytes_written <= HeaderSize
          /\ answer.body_bytes_written > 0
                => answer.body /\ answer.header_bytes_written = HeaderSize

(* A request is DONE when the header and all that the buffer has are sent,  *)
(* or a write would have blocked (request.c:599-626, worker.c:620-626).     *)
DoneMeansSent ==
    [][state = "WRITE" /\ state' = "DONE" =>
          blocked' \/ Len(sent) = HeaderSize + IF answer.body THEN used ELSE 0]_vars

(* The request whose end is lost: it has nothing to send, or waits for a     *)
(* body that is there.                                                      *)
Lost == \/ state = "WRITE" /\ answer = None
        \/ state = "WAITING_FOR_BODY" /\ ~queued

(* A read of another request has ended and left the write lock of the body  *)
(* with its thread (worker.c:427-431), and this request waits for it.        *)
Stranded ==
    /\ lock = "elsewhere" /\ ~loading
    /\ \/ place = "lock"
       \/ /\ state = "WRITE" /\ place = "turn" /\ answer # None
          /\ HeaderLeft = 0 /\ answer.body

(* A request that was read is closed, whichever malloc, lookup or read fails *)
(* on the way (worker.c:447-629), but for four ends of it: the process is    *)
(* killed, a write failed, the request is Lost, or it stays Stranded.  What  *)
(* comes before, a client that sends no header, is not part of it; that the  *)
(* worker comes round to it is HttpWorker's.                                *)
ConnectionEnds ==
    \/ place = "process" ~> state \in {"gone", "killed"} \/ broken \/ Lost
    \/ <>[]Stranded

(* "while (reading is not finished?) is (yes)" (readalgo.puml:7): a request *)
(* is not parsed before the end of its header.                              *)
ParsedWhenComplete == place # "turn" => Complete(buffer)

(* What the header says is what is sent. *)
LengthHonoured ==
    [][state = "WRITE" /\ state' = "DONE" /\ ~blocked' /\ answer.body
          => answer.body_bytes_written = response.content_length]_vars
=============================================================================

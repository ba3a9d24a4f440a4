------------------------------- MODULE GetPfx -------------------------------
(***************************************************************************)
(* The getpfxfile program (appsrc/getpfxfile.c, src/dynstringhttp.c).      *)
(* main calls getmetadatatoken, then getpfxfile, on one curl handle; the   *)
(* two have the same shape and are one procedure here, whose parameter fn  *)
(* is "token" or "pfx".  Inside it curl_easy_perform hands the answer of a *)
(* server, chunk by chunk, to the write callback.                          *)
(*                                                                         *)
(* A body is a sequence of symbols: an opening that stands for everything  *)
(* up to the member's value, the value's bytes, and Close.  The dynstrings *)
(* are those of DynBuf, with sizes scaled down; addresses do not matter to *)
(* this program (see DynString), so one per buffer is enough.              *)
(***************************************************************************)
EXTENDS DynBuf

CONSTANTS
  Payload,               \* bytes of a string value
  OpenToken, OpenValue,  \* {"access_token":"  and  {"value":"
  Close,                 \* "}
  Number,                \* the value is a number, not a string
  Bearer,                \* "Authorization: Bearer "
  MetadataTrue, AcceptJson,   \* the fixed request headers
  Diagnostic,            \* "Failed to initialise CURL"
  Bodies,                \* what a server may be about to send
  BufSize,               \* initial size of buf (8192)
  HdrSize,               \* initial size of hdr (4096)
  MaxBody                \* cap of the write callback (8192 * 4)

Calls == {"token", "pfx"}

Symbols == Payload \cup {OpenToken, OpenValue, Close, Number, Bearer, NUL, Junk}

ASSUME GetPfxAssumption ==
  /\ NULL \notin Calls \cup Seq(Symbols)
  /\ NULL \notin Seq(Seq(Symbols) \cup {MetadataTrue, AcceptJson})
  /\ NUL \notin Payload \cup {Bearer} /\ Junk \notin Payload \cup {Bearer}
  /\ Bodies \subseteq Seq(Symbols \ {Junk})
  /\ BufSize \in Nat \ {0} /\ HdrSize \in Nat \ {0} /\ MaxBody \in Nat

VARIABLES
  pc,        \* next statement
  fn,        \* the procedure that runs or ran last
  buf, hdr,  \* its dynstrings
  list,      \* header_list: the headers, or NULL
  root,      \* rootNode: the document's text, or NULL
  result,    \* what it returns: auth_hdr or b64_str
  auth, pfx, \* main's auth_hdr and pfx_b64
  res,       \* main's res, the exit code
  out,       \* lines printed
  handle,    \* curl options: whose header list and buffer they point to
  wire,      \* what the server has still to send
  got,       \* per call, the bytes curl handed to the write callback
  sent,      \* per call, the headers of the request, or NULL
  heap,      \* allocations that are live, the dynstrings' blocks excepted
  fault      \* something was freed twice or used after it was freed

strings == <<buf, hdr, list, root, result>>
main    == <<auth, pfx, res, out>>
net     == <<handle, wire, got, sent>>
memory  == <<heap, fault>>
vars    == <<pc, fn, strings, main, net, memory>>

Goto(label) == pc' = label

Release(xs) == /\ heap' = heap \ xs
               /\ fault' = (fault \/ ~(xs \subseteq heap))

Own(f) == IF f = "token" THEN "auth" ELSE "pfx"

-----------------------------------------------------------------------------
(* Documents.                                                              *)

Opens == {OpenToken, OpenValue}
Inner(t) == SubSeq(t, 2, Len(t) - 1)

(* json_decode accepts t.                                                  *)
IsDocument(t) ==
  /\ Len(t) >= 2 /\ t[1] \in Opens /\ t[Len(t)] = Close
  /\ \/ \A i \in 2..(Len(t) - 1) : t[i] \in Payload
     \/ Inner(t) = <<Number>>

(* The document has the string member that opening o stands for.           *)
HasString(t, o) == IsDocument(t) /\ t[1] = o /\ Inner(t) # <<Number>>

Member(f) == IF f = "token" THEN OpenToken ELSE OpenValue

(* The C string in the bytes t.                                            *)
UpToNUL(t) == [i \in {k \in 1..Len(t) : \A j \in 1..k : t[j] # NUL} |-> t[i]]

(* The value in what the server of call f has sent, or NULL.               *)
Answered(f) == LET t == UpToNUL(got[f])
               IN  IF HasString(t, Member(f)) THEN Inner(t) ELSE NULL

-----------------------------------------------------------------------------

Init ==
  /\ pc = "start" /\ fn = "token"
  /\ buf = NoBuffer /\ hdr = NoBuffer
  /\ list = NULL /\ root = NULL /\ result = NULL
  /\ auth = NULL /\ pfx = NULL /\ res = 0 /\ out = <<>>
  /\ handle = [headers |-> NULL, sink |-> NULL, timeout |-> FALSE]
  /\ wire = <<>>
  /\ got = [f \in Calls |-> <<>>]
  /\ sent = [f \in Calls |-> NULL]
  /\ heap = {} /\ fault = FALSE

(* main: curl_global_init, curl_easy_init.  When the handle is NULL main   *)
(* returns at once, past the cleanup.                                      *)
EasyInit ==
  /\ pc = "start"
  /\ heap' = heap \cup {"global", "curl"}
  /\ Goto("init_buf")
  /\ UNCHANGED <<fn, strings, main, net, fault>>

EasyInitFails ==
  /\ pc = "start" /\ AllocMayFail
  /\ heap' = heap \cup {"global"}
  /\ out' = Append(out, Diagnostic)
  /\ res' = 1
  /\ Goto("done")
  /\ UNCHANGED <<fn, strings, auth, pfx, net, fault>>

(* dynstring_initialise(&buf, 8192), dynstring_initialise(&hdr, 4096)      *)
InitBuf ==
  /\ pc = "init_buf"
  /\ \E o \in Initialise(BufSize) :
       /\ buf' = o.ctx
       /\ Goto(IF o.rc = 0 THEN "init_hdr" ELSE "finish")
  /\ UNCHANGED <<fn, hdr, list, root, result, main, net, memory>>

InitHdr ==
  /\ pc = "init_hdr"
  /\ \E o \in Initialise(HdrSize) :
       /\ hdr' = o.ctx
       /\ Goto(IF o.rc = 0 THEN "headers" ELSE "finish")
  /\ UNCHANGED <<fn, buf, list, root, result, main, net, memory>>

(* curl_slist_append: NULL when out of memory; the old list stays as it    *)
(* was, but the program has overwritten its only pointer to it.            *)
SlistAppend(l, h) ==
  {IF l = NULL THEN <<h>> ELSE Append(l, h)}
    \cup (IF AllocMayFail THEN {NULL} ELSE {})

(* The header list and CURLOPT_HTTPHEADER.                                 *)
SetHeaders(l) ==
  /\ list' = l
  /\ handle' = [handle EXCEPT !.headers = IF l = NULL THEN NULL ELSE fn]
  /\ Goto("perform")

BuildTokenHeaders ==
  /\ pc = "headers" /\ fn = "token"
  /\ \E l \in SlistAppend(NULL, MetadataTrue) :
       /\ SetHeaders(l)
       /\ heap' = heap \cup IF l = NULL THEN {} ELSE {"list"}
  /\ UNCHANGED <<fn, buf, hdr, root, result, main, wire, got, sent, fault>>

BuildPfxHeaders ==
  /\ pc = "headers" /\ fn = "pfx"
  /\ \E l \in SlistAppend(NULL, auth) : \E l2 \in SlistAppend(l, AcceptJson) :
       /\ SetHeaders(l2)
       /\ heap' = heap \cup (IF l2 # NULL THEN {"list"}
                             ELSE IF l # NULL THEN {"lost list"} ELSE {})
  /\ fault' = (fault \/ "auth" \notin heap)
  /\ UNCHANGED <<fn, buf, hdr, root, result, main, wire, got, sent>>

(* Slip: CURLOPT_TIMEOUT is not set.                                       *)
SetOptions_NoTimeout(h) == [h EXCEPT !.sink = fn]

(* dynstringhttp_appendfromurl: set the remaining options and perform.     *)
SetOptions(h) == [h EXCEPT !.sink = fn, !.timeout = TRUE]

(* The options point to what is live in the call that performs.            *)
OptionsLive(h) == /\ h.headers \in {NULL, fn} /\ (h.headers = fn => "list" \in heap)
                  /\ h.sink = fn /\ buf.buf # NULL

Perform ==
  /\ pc = "perform"
  /\ handle' = SetOptions(handle)
  /\ fault' = (fault \/ ~OptionsLive(handle'))
  /\ sent' = [sent EXCEPT ![fn] = IF handle'.headers = NULL THEN <<>> ELSE list]
  /\ wire' \in Bodies
  /\ Goto("transfer")
  /\ UNCHANGED <<fn, strings, main, got, heap>>

(* Slip: at the cap, keep what fits and report success.                    *)
WriteCallback_Truncates(n) ==
  LET room == MaxBody - buf.pos
  IN  AppendString(buf, SubSeq(wire, 1, IF n > room THEN room ELSE n))

(* dynstringhttp_writedatatodynstring on a chunk of n bytes.  A return     *)
(* value other than n makes curl give up (CURLE_WRITE_ERROR).              *)
WriteCallback(n) ==
  LET chunk == SubSeq(wire, 1, n)
  IN  IF buf.pos + n > MaxBody THEN {Failed(buf)} ELSE AppendString(buf, chunk)

Deliver(n) ==
  /\ pc = "transfer"
  /\ n <= Len(wire)
  /\ got' = [got EXCEPT ![fn] = @ \o SubSeq(wire, 1, n)]
  /\ \E o \in WriteCallback(n) :
       /\ buf' = o.ctx
       /\ Goto(IF o.rc = 0 THEN "transfer" ELSE "finish")
  /\ wire' = SubSeq(wire, n + 1, Len(wire))
  /\ UNCHANGED <<fn, hdr, list, root, result, main, handle, sent, memory>>

(* CURLE_OK: the connection closed.  Without a content length that is the  *)
(* end of the body wherever it happens.                                    *)
TransferDone ==
  /\ pc = "transfer"
  /\ Goto("decode")
  /\ UNCHANGED <<fn, strings, main, net, memory>>

(* Any other CURLcode: the connection cannot be made or breaks.            *)
TransferFails ==
  /\ pc = "transfer"
  /\ Goto("finish")
  /\ UNCHANGED <<fn, strings, main, net, memory>>

(* CURLOPT_TIMEOUT: curl ends a transfer that takes longer than 10 s.      *)
Timeout ==
  /\ pc = "transfer"
  /\ handle.timeout
  /\ Goto("finish")
  /\ UNCHANGED <<fn, strings, main, net, memory>>

(* json_decode(dynstring_getcstring(&buf)), json_find_member, tag check.   *)
Decode ==
  /\ pc = "decode"
  /\ \E o \in GetCString(buf) :
       LET t == CString(o.ctx) IN
       /\ buf' = o.ctx
       /\ IF IsDocument(t)
          THEN /\ root' = t
               /\ heap' = heap \cup {"json"}
               /\ Goto(IF HasString(t, Member(fn)) THEN "extract" ELSE "finish")
          ELSE /\ Goto("finish")
               /\ UNCHANGED <<root, heap>>
  /\ UNCHANGED <<fn, hdr, list, result, main, net, fault>>

(* json.c calls exit(EXIT_FAILURE) when it is out of memory.               *)
DecodeAborts ==
  /\ pc = "decode" /\ AllocMayFail
  /\ res' = 1
  /\ Goto("aborted")
  /\ UNCHANGED <<fn, strings, auth, pfx, out, net, memory>>

(* Slip: the arguments swapped, the value before the prefix.               *)
AppendBoth_Swapped(c, s, t) ==
  UNION {IF o.rc = 0 THEN AppendString(o.ctx, s) ELSE {o} : o \in AppendString(c, t)}

(* appendstringz of two strings: the outcomes after both of them, or after *)
(* the first if that fails.                                                *)
AppendBoth(c, s, t) ==
  UNION {IF o.rc = 0 THEN AppendString(o.ctx, t) ELSE {o} : o \in AppendString(c, s)}

(* getmetadatatoken checks the code of appendstringz.                      *)
ExtractToken ==
  /\ pc = "extract" /\ fn = "token"
  /\ \E o \in AppendBoth(hdr, <<Bearer>>, Inner(root)) :
       /\ hdr' = o.ctx
       /\ Goto(IF o.rc = 0 THEN "detach" ELSE "finish")
  /\ UNCHANGED <<fn, buf, list, root, result, main, net, memory>>

(* getpfxfile does not assign it: "if (res)" on the next line tests the    *)
(* code of the download, which is 0 here.                                  *)
ExtractPfx ==
  /\ pc = "extract" /\ fn = "pfx"
  /\ \E o \in AppendString(hdr, Inner(root)) : hdr' = o.ctx
  /\ Goto("detach")
  /\ UNCHANGED <<fn, buf, list, root, result, main, net, memory>>

Detach ==
  /\ pc = "detach"
  /\ \E o \in DetachCString(hdr) : result' = CString(o.ctx)
  /\ hdr' = NoBuffer
  /\ heap' = heap \cup {Own(fn)}
  /\ Goto("finish")
  /\ UNCHANGED <<fn, buf, list, root, main, net, fault>>

(* Slip: the document is not deleted.                                      *)
Held_KeepsJson == IF list # NULL THEN {"list"} ELSE {}

(* finish: release what there is and return to main.                       *)
Held == (IF root # NULL THEN {"json"} ELSE {}) \cup (IF list # NULL THEN {"list"} ELSE {})

Return ==
  /\ pc = "finish"
  /\ Release(Held)
  /\ buf' = NoBuffer /\ hdr' = NoBuffer
  /\ root' = NULL /\ list' = NULL /\ result' = NULL
  /\ IF fn = "token" THEN auth' = result /\ pfx' = pfx
                     ELSE pfx' = result /\ auth' = auth
  /\ Goto(IF fn = "token" THEN "got_token" ELSE "got_pfx")
  /\ UNCHANGED <<fn, res, out, net>>

(* main, after getmetadatatoken.                                           *)
GotToken ==
  /\ pc = "got_token"
  /\ IF auth = NULL THEN /\ res' = 1
                         /\ Goto("cleanup")
                         /\ UNCHANGED fn
                    ELSE /\ fn' = "pfx"
                         /\ Goto("init_buf")
                         /\ UNCHANGED res
  /\ UNCHANGED <<strings, auth, pfx, out, net, memory>>

(* Slip: auth_hdr keeps the address that was freed.                        *)
GotPfx_KeepsPointer ==
  /\ pc = "got_pfx"
  /\ Release({"auth"})
  /\ IF pfx = NULL THEN res' = 1 /\ Goto("cleanup")
                   ELSE res' = res /\ Goto("print")
  /\ UNCHANGED <<fn, strings, auth, pfx, out, net>>

(* Slip: the exit code is not set when there is no secret.                 *)
GotPfx_ExitsZero ==
  /\ pc = "got_pfx"
  /\ Release({"auth"})
  /\ auth' = NULL
  /\ Goto(IF pfx = NULL THEN "cleanup" ELSE "print")
  /\ UNCHANGED <<fn, strings, pfx, res, out, net>>

(* main, after getpfxfile: free(auth_hdr), then look at the result.        *)
GotPfx ==
  /\ pc = "got_pfx"
  /\ Release({"auth"})
  /\ auth' = NULL
  /\ IF pfx = NULL THEN res' = 1 /\ Goto("cleanup")
                   ELSE res' = res /\ Goto("print")
  /\ UNCHANGED <<fn, strings, pfx, out, net>>

PrintPfx ==
  /\ pc = "print"
  /\ out' = Append(out, pfx)
  /\ Release({"pfx"})
  /\ Goto("cleanup")
  /\ UNCHANGED <<fn, strings, auth, pfx, res, net>>

Cleanup ==
  /\ pc = "cleanup"
  /\ Release({"curl", "global"} \cup IF auth # NULL THEN {"auth"} ELSE {})
  /\ Goto("done")
  /\ UNCHANGED <<fn, strings, main, net>>

-----------------------------------------------------------------------------

Program ==
  \/ EasyInit \/ EasyInitFails
  \/ InitBuf \/ InitHdr
  \/ BuildTokenHeaders \/ BuildPfxHeaders
  \/ Perform
  \/ Decode \/ DecodeAborts
  \/ ExtractToken \/ ExtractPfx \/ Detach
  \/ Return
  \/ GotToken \/ GotPfx \/ PrintPfx \/ Cleanup

Network == (\E n \in 1..Len(wire) : Deliver(n)) \/ TransferDone \/ TransferFails

Next == Program \/ Network \/ Timeout

(* The program runs on, and curl's own clock ends a transfer; nothing is   *)
(* assumed of the network.                                                 *)
Spec == Init /\ [][Next]_vars /\ WF_vars(Program) /\ WF_vars(Timeout)

-----------------------------------------------------------------------------

Exited == pc \in {"done", "aborted"}

(* Nothing is freed twice, and each request is made with options that      *)
(* point to the caller's own list and buffer, although the handle keeps    *)
(* pointers to those of the previous, finished call.                       *)
NoFault == ~fault

(* Whatever fails on the way, main leaves nothing allocated, except a      *)
(* header list that a failed curl_slist_append made it forget, and curl's  *)
(* global state when there is no handle.                                   *)
AllReleased ==
  pc = "done" =>
    /\ heap \subseteq {"lost list"} \cup IF out = <<Diagnostic>> THEN {"global"} ELSE {}
    /\ "lost list" \in heap => sent.pfx = <<>>
    /\ buf = NoBuffer /\ hdr = NoBuffer

(* What json_decode is given is all that curl delivered, in order: the     *)
(* program never decodes a body that it cut at the cap or for want of      *)
(* memory, and the body never exceeds the cap.                             *)
BodyWhole ==
  /\ buf.pos <= MaxBody
  /\ pc = "decode" => Text(buf) = got[fn]

(* The request to the vault carries the token the metadata service gave    *)
(* in this run, or no Authorization at all (curl_slist_append failed).     *)
TokenInRequest ==
  /\ sent.pfx # NULL =>
       /\ Answered("token") # NULL
       /\ sent.pfx \in LET bearer == <<Bearer>> \o Answered("token")
                       IN  {<<bearer, AcceptJson>>} \cup
                           IF AllocMayFail THEN {<<AcceptJson>>, <<>>} ELSE {}
  /\ sent.token \in {NULL, <<MetadataTrue>>} \cup IF AllocMayFail THEN {<<>>} ELSE {}

(* README.md: the program "gets a specific key from vault".  So with exit  *)
(* code 0 it has printed what the vault holds.                             *)
PrintsOnlySecret == Exited /\ res = 0 => out = <<Answered("pfx")>>

(* The program is a SecretTool, whatever the servers and the allocator do: *)
(* it ends, and its exit code and its output go together.                  *)
Tool == INSTANCE SecretTool WITH
          Secrets <- UNION {{SubSeq(s, 2, n) : n \in 1..Len(s)} : s \in Bodies},
          Room    <- HdrSize,
          served  <- IF fn = "pfx" THEN Answered("pfx") ELSE NULL,
          out     <- out,
          status  <- IF ~Exited THEN "running" ELSE IF res = 0 THEN "ok" ELSE "failed"
ImplementsTool == Tool!Spec
=============================================================================

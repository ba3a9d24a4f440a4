# A TLA+ model of falcon-website-iac

The repository deploys a web site. Its only program of some size is in
`azure-metadata/` (C): `getpfxfile` asks Azure's metadata service for a token,
asks a key vault for a secret with it, and prints the secret. It is built on a
dynamic string, a JSON library and helpers for HTTP, files, time and base64.
The rest is shell scripts, Terraform, Kubernetes manifests and a Dockerfile.

## Inventory

| part | state | operations | what is hard | what makes it correct |
|---|---|---|---|---|
| dynamic string, `include/dynstring.h` | `buf`, `size`, `pos` and the block | initialise, append, empty, compact, getcstring, detachcstring, free | the block moves when it grows; any allocation may fail; results that are ignored | appends are all or nothing; a pointer handed out is the live block's and terminated; no byte is lost |
| HTTP into a dynstring, `src/dynstringhttp.c` | options of the curl handle, the dynstring | set options, perform; the write callback | called back chunk by chunk; cap; a transfer that fails, ends early or hangs | what is decoded is all that was delivered; a transfer ends |
| the program, `appsrc/getpfxfile.c` | main's and two procedures' locals, one curl handle | two requests, decode, extract, print | a failure after every step, one cleanup label; the handle keeps pointers between the calls | prints the whole secret or nothing, exit code to match; everything released once |
| JSON tree, `src/json.c` | nodes with parent, sibling and child links | make, add, remove, delete, check, look up | a recursive delete that cuts the links it walks | links agree; a delete frees exactly the subtree |
| JSON string codec, `src/json.c` | the text position, the SB buffer | validate UTF-8, parse a string, write one | UTF-8, surrogates, escapes; the space reserved in the buffer | what is accepted decodes as it means; what is written can be read; no write passes the buffer |
| JSON parser and printer, `src/json.c` | the text position, a C stack of half-built values | decode, validate, encode, stringify | ownership when a parse fails deep inside; two labels, one with a key to free | accepts what is JSON, with or without output; leaks nothing, frees nothing twice; prints what it read |
| base64, `src/base64.c` | position, line length, the output buffer | size, encode, three decoders | newlines, padding, a size that wraps, results that are ignored | stays in the size it asks for; decodes what was encoded; the decoders agree |
| files, `src/filesystem.c` | the file system | save, load, age | other processes and kills between two system calls, short writes, a path that is a link | what was saved undisturbed is kept; what is loaded undisturbed is the file, unless through a link |
| directory walk, `src/filesystem.c` | one path buffer shared by the recursion | recurse, call back | entries that vanish, links, long names | each file once under its own path; the path is restored, but for a `/` at its end, unless the outermost level left a name in it; stays in the buffer if directories' paths fit |
| time, `src/timefn.c` | the clock, a date and its text | read the clock, convert, format, parse | rounding that carries, narrow types, a field that is not set, a clock that is set back | milliseconds keep the order of the clock; an age is right until 2038, and never too high; a text reads back as its date |
| deploy, `falcon-website-deploy.sh`, `dockertags.sh` | registry, cluster, temporary files | list the tags, set the image or show the tags | two deployments at once, kills, a registry that changes or fails, commands whose failure nobody looks at | only what was found in a listed tag is run; the tags shown are of the list searched |
| first boot, `firstboot.sh` | packages, two files, the done marker | install, load, mark | failures that errexit sees or does not, power cuts, reruns | done means installed |

The parts call each other: `getpfxfile` owns two dynstrings per request, hands
one to curl as the target of the write callback, decodes it with json.c and
copies one member into the other. Nothing runs concurrently in one process; the
interleavings are those with the network, with the allocator's failures and,
for the file helpers and the scripts, with other processes and with kills. The
two scripts meet on the minikube host: deployments start when the first boot is
done.

`PROJECT.json` lists each part with its state; what is left out, and why, is under
"Not modelled" below.

## Modules

    TextBuffer  <--implements--  DynString  --extends-->  DynBuf
    SecretTool  <--implements--  GetPfx     --extends-->  DynBuf
    JsonForest  <--implements--  JsonTree
        ^
        | nodes of
    JsonGrammar <--extends--  JsonParse  <--extends--  JsonPrint
    Utf8        <--extends--  Utf8Scan, JsonString
    FirstBoot   <--extends--  Deploy
    Base64, FileStore, DirWalk, TimeFn   stand alone

**DynBuf** holds the functions of `dynstring.h` as operators on the record
`[buf, size, pos, mem]`: the struct and, in `mem`, the block `buf` points to.
Bytes that were never written are `Junk`; a comparison with such a byte (the
test in getcstring) goes both ways. A function that allocates is the set of its
outcomes: one per address realloc may give, and NULL if `AllocMayFail`. The
function shapes follow the code: `GetCString` takes the pointer before
`AppendChar`, ignores the result and steps `pos` back on a `size_t`.

**DynString** makes one context a state machine, one action per function.
`phase` tells a struct that is not set up from one in use and one that was
detached. `appendstringz` is one step per string, because it can fail half-way.
`ret` is what the last call returned and what its pointer is worth to a reader.
`Spec` allows every function in any order; `AppSpec` only the calls that
`getpfxfile` makes, which looks at the result of `dynstring_initialise`.
`testdownload` makes no others as long as its malloc succeeds; it does not look
at that result (`testsrc/testdownload.c:22`), and without a buffer it goes on
with a struct whose `size` and `pos` nobody set, which is not modelled.
**TextBuffer** is the promise: a text, and nothing about sizes or addresses.

**GetPfx** is the program. `getmetadatatoken` and `getpfxfile` have the same
shape and are one procedure with a parameter `fn`; where they differ (headers,
the check of `appendstringz`) they have actions of their own. `pc` is the next
statement, `heap` the set of live allocations, and `fault` records a second free
or a request made with options that point to what is gone. `handle` is what
curl's options point to: it survives the first call with pointers to that call's
list and buffer, as in the code. `Perform` lets the server choose any body;
`Deliver(n)` is a callback with the next n bytes; `TransferDone`,
`TransferFails` and `Timeout` end the transfer at any point of the body.
json_decode is abstracted to the question which texts it accepts and which
member they have; when it is out of memory it ends the process, as json.c does.
**SecretTool** is what the calling script relies on.

**JsonTree** is the node heap of json.c: a function per field, one action per
function. The guards of the insertions are the assertions and nothing more, so a
root may be added to its own descendant. `json_delete` is a stack machine: one
step per call, per turn of the loop and per return. `doomed` is a history
variable, used only in the refinement mapping. **JsonForest** has sequences of
children instead of links and deletes a subtree in one step.

**JsonParse** is `json_decode` and `json_validate` (`out` tells which). The C
stack is explicit: a frame per active `parse_array` or `parse_object`, with
`ret` and `key`. `pc` is what is read next, or how `parse_value` returned. The
two labels `failure` and `failure_free_key` are `GiveUp` with nothing or with
the key to free. Nodes are those of JsonForest (`F`), so an append and a
`json_delete` are one step; JsonTree shows that the pointers do this. A text is
a sequence of symbols: the marks, blanks, the signs of numbers, and a whole
string or word as one symbol; "bad" is whatever no value begins with. A node or
key is named by the place it was read from, which makes its content readable
off the text. After `append_member` the frame keeps its `key`, as the local
variable does: a second free shows in `fault`. **JsonGrammar** says without any
parser which texts are JSON: a text is a value if it can be cut into the parts of
one. **JsonPrint** is `json_encode` and
`json_stringify` as operators on the tree that was decoded. A number is printed
only where "%.16g" gives back the digits (whole numbers); the doubles are not
modelled.

**Utf8** has the helpers of json.c on code points and bytes as operators:
`utf8_validate_cz`, `utf8_read_char`, `utf8_write_char`, surrogate pairs.
**Utf8Scan** is the loop of `utf8_validate`, a step per turn. **JsonString**
goes over a string literal with `parse_string`, writes the result with
`json_encode_string`, and reads that again; a step is one turn of a loop with
everything in it, `sb_grow` included. `cap` is the size of the SB buffer, and
`SB_INIT` is the 16 of the code. A failed `assert` ends in the operation
"aborted". The literals are put together from `Pieces`, whose meaning is stated
next to their bytes and is what decoding is compared with. `escape_unicode` is
always false in the code and is not a parameter here. In the three JSON modules
allocations succeed, because `out_of_memory` ends the process.

**Base64** runs `base64_encode` turn by turn, because the question is where it
writes: `in` counts the bytes of `src` that are done, `out` and `line_len` are
its variables, `cap` is `*out_len` on entry, and sizes count modulo `SizeMod`,
the range of a `size_t`. The decoders are operators on a whole text, their loops
folds over its characters: a turn is `Collect` in base64_decode_ex and `Gather` in
base64_decode. A character of the alphabet is its index; the others are codes for
what the tables tell apart. `base64_decode_forgiving` counts bytes that nobody
wrote, which are `Unwritten` here.

**FileStore** is `filesystem_saveramtofile` and `filesystem_loadintoram`, a step
per system call, called by several processes on one path. The path leads to an
inode, directly or through a symbolic link (`link` is that link's own size), or
to nothing; an open file stays with its inode when the path is unlinked. `open`
follows a link, a dangling one too; `lstat` (`StatSize`) and `unlink` do not. A
write may be short or fail, and `Stops` is a load's error return or a kill at any
place. `alone` and `acked` are history. Nobody but these calls changes the path
or the link.

**DirWalk** is `filesystem_recursedirectories`: `frames` is the C stack with what
`readdir` has still to give and the `path_pos` to which the caller cuts, `path`
the one buffer. `WalkStart` is what happens before the loop: a `/` at the end of
the path (`NoName` stands behind it) is overwritten, of an empty path perhaps the
byte in front of the buffer. The recursive calls find neither. Other processes
remove directories at any time. `uncut` and `struck` are history: the levels at
which the code went on without cutting a name, and whether that byte was written.

**TimeFn** has the clock (`timefn_getcurrentunixtimemillis`, and
`filesystem_isfileolderthan`, to which the clock returns an `int`). CLOCK_REALTIME
may be set: `Tick` takes it to any time. Where the subtraction of two ints
overflows, which is undefined, `Difference` has both what it may be: wrapped, or
exact in the long it is compared with. And TimeFn has the way
of a date through `timefn_gettimefromunixtimemillis`, `formattime` and
`parsetimetomillis`. What depends on a field that the code does not set
(`tm_isdst`) is a set of outcomes. `gmtime_r` is external and stated by the
calendar. my_timegm sets TZ, calls mktime and puts TZ back in one step: the
process has one thread.

**FirstBoot** is `firstboot.sh` command by command: `Run` a command that works,
`Ends` one whose failure errexit sees, or a power cut, at any place; `Download`
and `Chmod` are the two sides of `curl && chmod`, where errexit does not look.
What earlier runs left stays. **Deploy** has the two deploy scripts, several
deployments at once, each a process with its temporary file; the registry
changes beside them. `Matches` says in which tags grep finds an argument: it
looks for a part of a line, so a pair need not be equal. errexit is commented out:
when `mktemp` fails the script goes on with an empty name, and when `tee` fails
the file has only some of the tags (`MkTemp`, `ListTags`). `HostSpec` composes
the two modules.

`MC_Codecs`, `MC_Files` and `MC_Host` put the modules side by side that share a
run; parts that have no state in common take turns, so that their states add up
instead of multiplying.

Definitions whose comment begins with "Slip:" are not part of any
specification. Each is a plausible mistake in the code, used to see that the
property named for it in `PROJECT.json` notices.

## Runs

| run | specification | what it checks | states |
|---|---|---|---|
| `dynstring_app` | `AppSpec`, allocation may fail | `KeepsPromise` (refinement of TextBuffer), `RoomForTerminator`, `ReturnsReadable` | 11 268 |
| `dynstring_all` | `Spec`, no failures | `TextKept` | 78 096 |
| `dynstring_stale` | `Spec`, no failures | `ReturnsReadable`, violated (finding 1) | |
| `getpfx` | allocation may fail | `ImplementsTool` (refinement of SecretTool with its liveness), `NoFault`, `AllReleased`, `BodyWhole`, `TokenInRequest` | 16 820 |
| `getpfx_empty` | allocation may fail | `PrintsOnlySecret`, violated (finding 2) | |
| `jsontree` | four nodes, one name | `ImplementsForest` (refinement of JsonForest), `LinksAgree`, `NoDangling`, `DeleteEnds` | 165 336 |
| `codecs` | all strings up to four bytes; data and texts of base64 | `ValidIsEncoded`, `EncodedIsValid`, `TypeOK`; `EncodeFits`, `DecodesBack`, `DecodersAgree` | 26 862 |
| `json_string` | literals without U+001F | `ParsesRight`, `RoundTrip`, `AssertsHold`, `WritesFit`, `TypeOK` | 33 400 |
| `json_string_control` | literals with U+001F | `NoControlWritten`, violated (finding 3) | |
| `json_parse` | texts of all marks | `NoFault`, `NothingLost`, `AcceptsJson`, `PrintsWhatWasRead`, `Returns` | 179 390 |
| `files` | two processes on a file; a walk; the clock and dates | `AckedIsKept`, `LoadsWhole`; `ShowsTree`, `PathRestored`, `BufferHolds`; `ClockKeepsUp`, `AgeTells`, `ReadsBack` | 36 389 |
| `host` | first boot, then two deployments | `DoneMeansInstalled`, `OnlyListedRuns`, `ShowsOwnList` | 1 399 532 |

What they show beyond the findings: the programs' dynstrings lose nothing and
hand out no stale pointer; `getpfxfile` ends with the secret printed or an exit
code that says otherwise, whatever the network and the allocator do; the links
of a JSON tree agree at every moment, also in the middle of a delete; the parser
accepts JSON and nothing else, and leaks nothing on any way out. The file
helpers keep what was saved and load what is there as long as nobody else saves
at the same time and the path is no link; `AckedIsKept` and `LoadsWhole` say how
much that is, and what is loaded through a link. A host marked as done
has been installed; what may be wrong with its minikube is stated in
`DoneMeansInstalled`.

### Bounds

- *dynstring*: two bytes of payload and the terminator; initial sizes 1 and 3
  and inputs of up to 3 bytes, so that a string falls short of the end of the
  block, ends exactly there and goes past it; growth by 2 instead of 64; texts
  of up to 7 bytes (4 with all functions), that is several reallocations; two
  addresses, so that a block may stay or move. `SIZE_MAX` is 15.
- *getpfx*: buffers of 3 and 2 symbols instead of 8192 and 4096 and a cap of 5
  instead of 32768, with bodies of 2 to 6: each comparison goes both ways. The
  bodies include answers of the wrong shape, a NUL inside and behind the
  document, and one over the cap; every body can also be cut anywhere. One
  address per buffer is enough, because the program keeps no pointer into a
  buffer across an append.
- *json tree*: four nodes give a container with a first, a middle and a last
  child, chains of four, and rings of parents.
- *utf8 scan* (in `codecs`): every string of up to four bytes, each from the limits of the
  code's comparisons and their neighbours. A character has at most four bytes
  and the loop keeps nothing between two characters.
- *json string*: a piece is a character of each length, an escape of each kind,
  a surrogate pair, a half of one, or a fault. One or two pieces, alone or
  behind thirteen letters, so that three of the first 16 bytes remain and every
  kind of piece makes the buffer grow or just not; whole or cut short; with
  output and without.
- *json parse*: every text of up to four symbols; and six longer texts, which
  have objects in arrays and arrays in objects to depth three, two members with
  one name, empty containers and blanks at every place, cut short or with one
  symbol removed, added or replaced. So each failure happens at each depth, in
  the first and in a later member, before and after the key was handed over.
  And every text of up to five signs of numbers, and four signs behind `-1.`,
  so that all parts of a number are there.

- *base64* (in `codecs`): all data of up to three bytes over 0, 77 and 255; long
  data around one and two full lines (54 and 108 bytes) and, with a `size_t` of
  512, around every length at which four times it wraps. Texts from elsewhere of
  up to four characters of all kinds and up to eight of two kinds and padding,
  that is two blocks.
- *files*: two processes and texts of one and two bytes, so that a text is
  shorter than what it writes over; three inodes, one more than can be open; a
  path that is no link, or a link of size 1 or 3, shorter and longer than a text.
  Checked once with three processes and four inodes (339 156 states).
- *walk* (in `files`): a tree of depth two with an empty directory, directories
  before and after files; two directories vanish; a path buffer of 10 bytes
  (1024 in the code) and first paths of 0, 1, 2, 3 and 5, so that there is none, or
  the longest name fits, just fits, or does not; each with a `/` at its end or not.
- *time* (in `files`): the clock goes on or back to any of seven seconds, with
  nanoseconds on both sides of the rounding and of its carry; an `int` ends after
  four seconds, and ages go up to the greatest `int`. The
  dates are the ends of the years 0 and 9999, of February in years of each kind
  of leap rule, days around 1970 and January 2038, at both ends of an hour, a
  day and a second.
- *host*: two deployments, two tags, an argument that matches one of them and
  one that matches both, three temporary files, so that a killed deployment may
  leave one; each may get no file, or one that takes only some tags. firstboot.sh
  may be started and stopped any number of times.

### Fairness

`GetPfx` assumes that the program runs on (`WF` of `Program`) and that curl's
clock ends a transfer (`WF` of `Timeout`, which is enabled only if
`CURLOPT_TIMEOUT` was set for it). Nothing is assumed of the network.
`JsonTree` assumes that a `json_delete` in progress goes on; no caller has to do
anything; `JsonParse` assumes the same of the call. `SecretTool` asks only that
the tool exits. The other specifications are checked for safety only.

## Findings

1. **getcstring may return a stale pointer** (`include/dynstring.h:135`). The
   address is read before the terminator is appended, which moves a full
   buffer; after `initialisezero` the result is NULL. The programs of this
   repository, once initialised, do not run into it: with their calls a cell is
   always free (`RoomForTerminator`, proved). It is a trap for the next caller.
2. **A secret that could not be copied is printed as an empty line, with exit
   code 0** (`appsrc/getpfxfile.c:65`). The result of `appendstringz` is not
   assigned, so the test on the next line is dead. It takes a secret of 4096
   bytes or more and a failed realloc; a PFX in base64 is that long.

3. **json_encode_string writes what json_decode refuses**
   (`src/json.c:1184`). The parser refuses control characters up to 0x1F
   (`src/json.c:868`: "Control characters are not allowed in string literals."),
   the printer escapes those below 0x1F. U+001F is written as it is, and the
   text cannot be read back. The round trip holds for everything else
   (`RoundTrip`).

More observations, each of which a property states as far as it goes:

- A header list is lost when its second `curl_slist_append` fails, and the
  request then goes out without an Authorization header (`AllReleased`,
  `TokenInRequest`). When there is no curl handle the message goes to standard
  output, where the script expects the secret, with exit code 1 (`SecretTool`
  allows it).
- `base64_decode_forgiving` on fewer than four characters reports a full buffer
  that nobody wrote (`DecodesBack`); nothing in the repository calls it.
- `filesystem_saveramtofile` does not cut the file, so the end of a longer text
  stays behind a shorter one, and after a short write it unlinks whatever the
  path names by then (`AckedIsKept`).
- `filesystem_loadintoram` takes the size with `lstat` and opens through the path:
  of a symbolic link it loads as many bytes as the link is long, or the file if
  that is shorter, and returns 0 (`LoadsWhole`).
- `filesystem_recursedirectories` leaves a name in the path when `lstat` fails or
  finds a link, also in the caller's buffer at the outermost level; it cuts a `/` at
  the end of the caller's path, which `filesystem_sanitisedir` puts there, and does
  not put it back (`PathRestored`). It does not compare a directory's name with the
  size of the buffer, and of an empty path it reads the byte in front of the
  buffer, and overwrites it if that is a `/` (`BufferHolds`).
- `filesystem_isfileolderthan` sees the clock as an `int`, because the include of
  `timefn.h` is commented out. From 2038 on that is negative, and no file written
  since 1970 is called older, where `filesystem.h:9` promises 1. Only just
  after the wrap, while the subtraction overflows, does the answer depend on the
  build: wrapped round it is right (`AgeTells`, which asks for no more than that no
  file is ever called older that is not).
- `timefn_getcurrentunixtimemillis` reads CLOCK_REALTIME and goes back when that is
  set back, and only then (`ClockKeepsUp`).
- `my_timegm` gets a `struct tm` whose `tm_isdst` was never set, so a parsed time
  may be an hour off (`ReadsBack`).
- `firstboot.sh` does not notice a failed download, and takes an error page for a
  success; the marker then keeps it from trying again (`DoneMeansInstalled`).
- `falcon-website-deploy.sh` deploys whatever argument is a part of a tag, and
  exits with 0 when kubectl fails (`OnlyListedRuns`). It goes on when `mktemp` or
  `tee` has failed, and then shows none or only some of the tags (`ShowsOwnList`).

## Proofs

Each theorem holds for every value of the constants within the named
assumptions. None of the invariants that the runs check is inductive as it
stands; each section says what had to be added.

**`DynString_proofs`**, about `AppSpec` (`DynBufAssumption`,
`DynStringAssumption`: NULL is no address, NUL and the unwritten byte differ and
neither the latter nor NULL is something else; initial sizes are positive; inputs
are byte strings):

- `TypeCorrect`, `AlwaysRoom`, `PointersReadable`: the three invariants of
  `dynstring_app`. `PromiseKept`: `AppSpec` implements `TextBuffer`.
- `IInv`: while the buffer is in use it is `Sound` (`pos < size`, and every cell
  below `pos` was written), and otherwise there is none. `appendstring` grows when
  `len + pos >= size`, to `size + len`, so `pos < size` again
  (`AppendStringSound`); so the byte at `pos` exists, and getcstring and
  detachcstring find or write the terminator in place (`AppendNUL`,
  `GetCStringSound`, `DetachCStringSound`); so what they return is readable
  (`DeliversReadable`), and it is the text up to its first NUL (`CStringIsText`).
  For the refinement, `AppendStringText` shows that an append adds all bytes or
  changes nothing, and `StepRefines` maps each call to a step of the TextBuffer.
- `TextStays` and `TextStaysInUse` (`TextKept`): all functions of `dynstring.h` in
  any order if no allocation fails, and the programs' calls whatever the allocator
  does. `IInv` does not hold for arbitrary calls: a buffer may be full, compacted
  to nothing or absent. What is left of it is `FitInv` (a block of `size` cells, and
  `pos <= size`), and one lemma per function says what it keeps of the text. The theorem
  needs its hypothesis: on a full buffer with a failing allocator
  `dynstring_getcstring` still steps back over the NUL that it did not append, which
  loses the last byte of the text.

**`GetPfx_proofs`**, for all bodies, sizes, failures and ends of a transfer
(`GetPfxAssumption`: NULL is neither a name of a call nor a text, and servers
send symbols, none of them the mark of an unwritten byte):

- `NothingStale` (`NoFault`) and `NothingKept` (`AllReleased`). `IInv` is the
  ledger of the live allocations: which pointers are set at each statement
  (`Pointers`), that an allocation is live just if the pointer to it is set
  (`Ledger`), that the header option is the one this call made (`Request`), and
  what is known once a list was lost (`LostList`). That a successful call can be
  told from a failed one needs that a string is never NULL, so `Buffers` has the
  types of the two dynstrings, which the lemmas on the operators of DynBuf keep.
- `WholeBody` (`BodyWhole`), `RightToken` (`TokenInRequest`) and `SafeTool`. On
  top of `IInv`, `Story` follows the text from the wire to the printout: what was
  got and what is on the wire make up a body (`Traffic`); the buffer holds exactly
  what was got (`Body`), the decoded document is that up to its first NUL
  (`Document`), the header string is empty until it is the result (`Header`), each
  result is what its server answered (`Values`), and with it the lines of the
  request (`Sending`). `Holds` says that a dynstring holds a text and nothing
  else; a lemma per operation of DynBuf keeps it.
- `SafeTool` is the refinement of `SecretTool` without its fairness: initial states
  map to initial states, and each step is a step of the tool or changes nothing it
  speaks of (`Outcome`: nothing is printed before the cleanup, and then only with
  exit code 0).

**`Helpers_proofs`**, about the four helpers of their own:

- *Files*, for any number of processes, inodes and texts: `SavedIsKept`
  (`AckedIsKept`) and `WholeIsLoaded` (`LoadsWhole`). The invariant says what
  `alone` is good for: nobody else saves meanwhile (`Undisturbed`), so the open
  file is still what the path leads to (`OnThePath`), it begins with what was
  written (`Written`) or is as long as was measured, unless that was a link
  (`Measured`); and while a saved text is known to be kept nobody can stand before an
  unlink (`Quiet`).
- *Walk*, for any tree and any removals: `PathIsRestored`, `TreeIsShown`
  (`ShowsTree`), `BufferNotOverrun` (`BufferHolds`). `DirWalkAssumption` says of the
  trees that no directory is below itself, as file systems have it, and of the path
  the caller gives that it fits the buffer, with a `/` at its end. Before the call
  nothing holds of the path; `Outside` keeps that apart from the call that is
  `Underway`, and says when the byte in front is written. For the path, `Parts`: each
  active level's part of it ends at or behind where its own name ended, and exactly there
  if the level has left nothing in it; a return cuts at the place the caller
  remembered, which takes with it whatever stands behind. For the rest, `TreeInv`:
  each level's name stands where its caller will cut (`Placed`); each level reads the
  listing of the directory that the path has at this place (`Linked`); a path with
  more names than levels belongs to a walk that is failing, or leads through a
  directory that is gone (`Told`); the files the callback has seen, and those behind
  what is left of the listings, innermost level first, are those of the tree
  (`Ahead`); and with directories gone each path shown is that of a file, or leads
  through one of those (`Seen`). The lists
  of the tree are recursive functions; that they satisfy their definitions follows
  from the depth that the assumption gives (`FilesAre`, `DirsAre`).
- *Clock*: `ClockKeepsOrder` (`ClockKeepsUp`) and `AgeIsTold` (`AgeTells`), for all
  nanoseconds, settings of the clock and every width of an `int`
  (`TimeAssumption`). `ClockInv`: the last reading is that of the time it was made
  at. `MillisIs`: with the carry, the milliseconds are the clock divided and rounded,
  so they follow its order (`MillisOrder`). `IntIs`: the limit that the age test
  compares with is the clock less the seconds or, once the clock does not fit, less
  than that by the range of an `int`, never more.
- *Dates*: `DatesReadBack` (`ReadsBack`), for every date up to 54 000 years before
  or after 1970 (`TimeAssumption`). `CalendarAgrees`: the day of a date that was made
  from a day is that day. `TextReads`: the text of fields is read as these fields
  when the year has four digits, and not at all when it has five.
- *base64*, for all data and every `SizeMod`: `StaysInBuffer` (`EncodeFits`). After
  b blocks, q full lines and r quads on the next one, `in`, `line_len` and
  `Len(out)` are linear in q and r (`AtTurn`). `NoWrapPasses`: a size that wrapped
  round is smaller than the length, so what passes the second test is the true
  size; `Fits` compares it with the lengths that the loop and the tail reach.
- *The decoders*, for all data and all texts of the codes: `ReadAlike`
  (`DecodersAgree`) and `EncodingReadsBack` (`DecodesBack`). Both loops are folds of
  the library; `FoldLeft` chooses a function on sets of positions, of which
  `FoldIsChain` shows that it is what a loop makes of the text, character by
  character (`ReadGrows`, `GatheredGrows`). `Abreast` relates the two loops behind
  the same characters: base64_decode_ex is ahead by the bytes of the block that
  base64_decode still collects, and the low six bits of its accumulator are that
  block's last character, so the two are even when the block is whole
  (`AbreastSextet`, `TripleIs`); behind the padding both have stopped writing
  (`AbreastPad`, `BothRead`). For the way back `CodedInv` says that
  after each turn of base64_encode the text is whole blocks which decode to the
  bytes done with (`Whole`), with the newlines and without; `BackWhole`, `BackOne`
  and `BackTwo` add what the tail writes for no, one and two bytes left.
  `Forgives` has the text without newlines and padding, and the one exception.

**`JsonString_proofs`**, first for every text of bytes:

- `ScanStaysInText`: the scan of `utf8_validate` never passes the terminator.
- `OnlyEncodingsPass`, `EveryEncodingPasses`: at each position the code's bit tests
  take n bytes just if these are what `utf8_write_char` writes for some code point
  that is no surrogate. Both directions go by the length: for 2, 3 and 4 bytes one
  lemma says that accepted bytes read as a code point in the range of that length
  and are written back as they were, another that written bytes pass the tests.
  They turn the remainders and quotients into linear arithmetic before the solver
  sees them.

Then for all literals that are bytes without a NUL (`LiteralsAssumption`,
`PiecesAssumption`), however long:

- `StaysInLiteral`: neither function ever stands behind the terminator of what it
  reads. `NoTurnOverflows`: no turn of either loop writes past the SB buffer or the
  four throwaway bytes. Inductive is `Inv`: the types, `cap` of at least the 16
  bytes of `sb_init`, a buffer whenever something is written, and
  `Len(out) <= Room`. Each turn begins with room for 4 bytes in `parse_string` and
  for 14 in `emit_string`; what a turn writes is bounded by one lemma for each
  action (at most 4, at most 6, and 1 for the closing quotation mark).
- `NoAssertFails` (`AssertsHold`). `Codec`: what is written so far, what was handed
  out, and what is left of it while it is emitted are UTF-8. `Valid` says that with
  a set of places of which each leads to the next, so that a character more is a
  place more; `ValidateIs` shows that this is what the recursive `Validate` computes.
- `ReadsItsOwn`: `RoundTrip`, for every string without U+001F, which is the exact
  extent of finding 3. `Mirror`: the pairs of a place in the string and one in its
  literal that emit_string has gone through (`Chain`) are those that parse_string
  goes through again, since at each of them the written piece leaves it one action
  only, and that action writes the character (`SeesLetter`, `SeesUnit`,
  `SeesCharacter`).

**`JsonTree_proofs`**, for any finite set of nodes (`JsonTreeAssumption`):

- `NothingFreed` (`NoDangling`) and `LinksStayWhole` (`LinksAgree`). `TreeInv`: for
  each node there is a sequence that its child links spell, forwards, backwards and
  by the parent links (`Lists`); who has no parent has no siblings and no key
  (`Parents`); and each frame of a `json_delete` is a live node without a parent
  whose `next` is the first child that is left (`Deleting`).
- `ForestImplemented` (`ImplementsForest`). `ListsRead`: following the links gives
  that sequence, so each edit is the step of JsonForest. For a delete, `Doom` adds
  that the doomed nodes are closed under children and that each live one climbs
  through live doomed parents, with falling rank, to a frame of the stack; so when
  the stack is empty all of them are freed, and no other node was.

**`JsonParse_proofs`**, for texts of any length and nesting
(`JsonParseAssumption`: texts consist of symbols and are no longer than `MaxLen`):

- `FreesWhatItHas` (`NoFault`) and `LosesNothing` (`NothingLost`). `ParseInv`: the
  statement agrees with the innermost call (`Control`); the roots are exactly what
  the calls hold in `ret` and what is being returned, and the keys are exactly those
  of the calls that own one and those attached to nodes, never both (`Kept`); the
  nodes are trees (`Trees`), no two calls hold the same node or key (`Apart`), and a
  place that was not reached names neither (`Fresh`). A `json_delete` frees a subtree:
  `Below` are the keys that go with it.
- `AcceptsExactlyJson` (`AcceptsJson`). The grammar is a recursive function on the
  parts of a text, here its `Table`, which has one by `Recursion` of `Reach_proofs`.
  `AcceptInv` adds two facts about the active calls, both about the text without its
  blanks (`Bare`). `Sound`: there are places, one for the text and one per call,
  where the item being read begins; what was read from there is the beginning of a
  value, and whatever list follows continues the list of the call. `Complete`: if
  the text is JSON, there are places, one per call, where its bracket closes, and
  what is not read yet is the rest of a value up to there. So a call that gives up
  does so on a text that is not JSON (`GraspFails`), and the last that returns has
  read one (`GraspAccepted`). Between them stand `parse_number`, which takes exactly
  a number (`CutEnds`, `EndCuts`), and the blanks, which are skipped anywhere but
  inside a number (`Gapless`).

**`Deploy_proofs`**, for any number of deployments, tags and files, about
`HostSpec`:

- `OnlyListed`, `OwnListShown`: a running deployment has a file of its own, or none
  (`OwnFiles`), which behind the pipeline holds of what was searched what `tee` could
  write, and all of it if it could (`Searched`, `Holds`).
- `DoneIsInstalled`: each command's needs are met by those before it, so whoever
  stands at the download has them all, whichever runs they were installed in.

**`Reach_proofs`** has what takes the place of an induction rule. The library's
induction theorems take a predicate as a parameter, which the provers cannot
instantiate. `Least` (a set of numbers has a least element, from the
well-foundedness of finite subsets) is applied to the set of counterexamples
instead. From it follow that a function can be iterated, and what is reached by
iterating it; and that a recursive definition which follows a falling rank has a
solution (`Recursion`), without which nothing could be said of a recursive function
or of the folds of the library.

Only model-checked:

- `PrintsWhatWasRead`: compares two stacks with a recursive definition.
- `ParsesRight`: what a literal means is stated piece by piece, and holds only for
  pieces whose bytes are what their kind says; the constants do not say that.
- Liveness: `DeleteEnds`, `Returns`, and the fairness of `SecretTool` in
  `ImplementsTool`.

## Not modelled

- *Test programs* (`testparse.c`, `testdownload.c`): straight lines of calls. The
  calls on a dynstring are those of `AppSpec`, except testdownload's when its malloc
  has failed, and testparse's use of a node behind the delete of its tree is what
  `NoDangling` is about.
- Of the walk: entries whose `d_type` is DT_UNKNOWN, with which directories go to the
  callback as files, and a `readdir` that fails, which ends the loop like the end
  of the directory, with 0. Of load and save: others that replace the path or the
  link, and a path that is a directory, which a load refuses.
- *Macros* (`dbg.h`, `minunit.h`, `minunitex.h`): output only, no state.
- *Terraform, Kubernetes manifests, cloud-init files*: declarations; the programs
  that act on them are elsewhere.
- *Certificate scripts, Dockerfile, Makefile, `encode_firstboot.sh`*: one command
  after the other, with nothing kept between two runs.
- `filesystem_fileexists` returns 0 and `filesystem_sanitisedir` copies a string;
  neither keeps or changes a state. The branches for Windows are not built here.
- The doubles of JSON numbers: "%.16g" and `strtod` belong to the C library; a
  number is printed only where its digits come back.
- The three system steps inside `my_timegm` (set TZ, mktime, put TZ back) are one
  step, since nothing else runs in the process.

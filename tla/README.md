# Verification of libaan

libaan is a C++ library of helpers: an encrypted file (`crypto_file`) over a
cipher wrapper (`camellia_256`), hashing and key derivation, terminal and
clipboard control, child processes, and string, bit and byte utilities. This
directory holds TLA+ models of it, TLC configurations and TLAPS proofs.

## Inventory

| component | state | operations | interaction | what is hard | what makes it correct |
|---|---|---|---|---|---|
| `crypto_file` (crypto_file.cc/.hh) | header, salt, IV, HMAC, timestamp, ciphertext, plaintext, dirty, length; the file | `read`, `write`, `read_and_parse_old_version_0010`, `clear_buffers`, edits of the buffer, `set_dirty` | calls `camellia_256`, `hash`; shares the file with other processes | no lock, no atomic replacement: crashes, other writers, failing output, short files | what is read was written as a whole; IVs are fresh; errors leave no text; a register when callers take turns |
| converter (convert_crypto_file_0010to0020.cc) | place in `convert`, the object | read old format, write new format | `crypto_file` | wrong password, second run, crash between truncation and output | the document is never lost |
| `camellia_256` (crypto.cc/.hh) | salt, IV, output string, offsets | `init`, `new_random_iv`, `encrypt`, `decrypt` | EVP layer | pieces of 100 bytes against blocks of 16, the block held back | no access outside the strings; all of the text; it ends |
| `hash`, `hmac` | HMAC context, state, output | `sha1`, `sha1_hmac`; constructor, `update`, destructor | EVP layer | failing calls between constructor and destructor | output empty exactly on failure |
| pbkdf2 | key, block counter | `pbkdf2`, `pkcs5_F` | `hash` | off-by-one in the chain of PRF calls | the PKCS#5 function; every byte of the key |
| random bytes, passwords | - | `read_random_bytes`, `read_random_ascii_set`, `password_from_stdin` | /dev/urandom, tty | failure; drawing until enough fits | fresh values; the text is full, and of the set only |
| terminal (terminal.cc/.hh) | saved and current tty modes; size; signalfd | `rawmode`, `io`, `kbhit`, `getch`, `terminal_size` | tty, SIGWINCH, signalfd | nesting of lifetimes, failing ioctls, signal against reader | the original mode returns; the size is current |
| clipboard (x11.cc) | selection owner, event queue | `add_to_clipboard` | X server, other clients | event loop with timeout | every request is answered; the call ends |
| child processes (process.hh) | kernel's table of children | `sub_do`, `try_reap` | fork, waitpid | reaping twice, other children | each child's status is reported once |
| `readall` (fd.cc) | offset | `readall` | read(2) | EINTR, short reads, errors | all bytes up to length or end of file |
| files (file.cc) | descriptors, streams | `readdir`, `readdir2`, `temp_file`, `read_file`, `write_file`, `get_file_length` | file system, callbacks | descriptors that stay open, ignored errors | true means every entry |
| strings (string.cc/.hh) | suffix array | `split`, `split2`, `sarr_*::search` | - | boundaries of binary searches | agreement with a plain definition |
| bits and bytes | words | set, clear, count, combine | - | half words, last word | agreement with sets of positions |

Not modelled, and why:

* `lion` stands behind `#ifdef LION_ENABLED`, which nothing defines.
* The IP helpers (ip_util.hh, ipv4_util.hh, ipv6_util.hh, 996 lines) include
  `bit_util.hh`, which is not in the repository; base64.cc is not built. Code
  that no compiler sees has no behaviour to be faithful to.
* `tt.cc` is a scratch program; debug.cc prints.
* algorithm.hh, time.hh, `startswith`, `endswith` and the rest of byte.hh are
  expressions over one or two library calls, or plain formatting: a model would
  say the same again.
* `sha1()`, `read_file()`, `write_file()`, `readlink()` and `password_from_stdin`
  are a call or two of a library with nothing between them.
* `fd_to_stream()` (and so `temp_file()`) returns a stream whose buffer was an
  object of the function, and whose descriptor is closed with it: the next use is
  undefined behaviour, and no model can say more.
* `kbhit()` and `do_poll_on_stdin_plus1()` ask the kernel and keep nothing of the
  answer: no step of the models is theirs.

## Modules

| module | models |
|---|---|
| `CryptoFile` | `crypto_file` objects of several processes on one file |
| `SealedDocument` | abstract: the register of one document that callers in turn see |
| `CryptoFileRefinement` | `CryptoFile` under fairness, mapped onto `SealedDocument` |
| `ConvertTool` | the converter, composed with `CryptoFile` |
| `CipherStream` | the loops of `camellia_256` in lengths and offsets |
| `SuffixArray` | the order of suffixes and the DC3 construction, as functions |
| `SuffixSearch` | a searcher (`stl_search_all`, `sarr_cx11`, `sarr_c`, `sarr_dc3`) asked for patterns |
| `RawMode` | `rawmode` and `io` objects of a program on its terminal |
| `TerminalSize` | `terminal_size` objects, SIGWINCH and the user's resizes |
| `Clipboard` | `add_to_clipboard` between the X server, clients that paste and other owners |
| `ChildProcess` | `sub_do` and `try_reap` over the kernel's table of children |
| `Readall` | `readall` on a stream |
| `Directories` | `readdir` and `readdir2`, with walks in their callbacks |
| `KeyDerivation` | `pbkdf2` and `pkcs5_F`, HMAC by HMAC |
| `HmacObject` | objects of the class `hmac` on the caller's strings |
| `RandomText` | `read_random_ascii_set` |
| `Split` | `split2` and both `split` |
| `Words`, `BitVector` | byte.hh's counts and bit_vector.hh's masks; both bit vectors |
| `CryptoFileProofs`, `CryptoFileRefinementProofs`, `ConvertToolProofs` | theorems about the encrypted file, the register and the converter |
| `SuffixArrayProofs`, `SuffixSearchProofs` | theorems about suffix arrays, DC3's among them, and about the searches |
| `ComputationProofs` | theorems about the rest of what is computed in memory, and about all of it in `MCComputations` |
| `TerminalProofs`, `HostProofs` | theorems about what talks to the host, the last one composing them for `MCHost` |
| `MCHost`, `MCComputations` | what talks to the host, and what is computed in memory, for TLC |
| other `MC*` | constants for TLC |

`MCHost` and `MCComputations` put together modules that share no state in the
code either: `used` says which of them the program of a behaviour uses, and the
rest stay as they begin.

### CryptoFile

Each handle is a `crypto_file` object of one process. `read()` is three steps,
as it touches the file three times: `StartRead` (wipe, measure the length),
`ParseHeader`, then `RejectContents` or `DecryptContents`; on a short file it is
one, `ReadNothing` or `ReadNothingFails`. `read_and_parse_old_version_0010()`
goes through the same actions with `op = "read_old"`, the smaller header and no
integrity check. `write()` is `Prepare` (everything in memory), `Truncate`,
`PutHeader`, `PutBody`; `RefuseWrite`, `OpenFails`, `OutputFails` are its error
paths. `Edit` is a change through `get_decrypted_buffer()`. `Crash` ends a
process anywhere; the next has a new object.

Correspondence of state: `file` is the file, `obj` the data members (`enc` is
`encrypted_file`, `buf` is `decrypted_buffer`, `length` is `total_file_length`),
`pc` the place inside a call, `arg` its arguments, `last` its result. `sealed`
is a history variable: all images `write()` prepared. `fresh` counts random
draws.

Abstractions:
* Sizes are in blocks of 16 bytes: headers are 8 and 4, a text of n bytes has
  n/16 + 1 blocks, the empty text none.
* Encryption and HMAC are symbolic and perfect. A ciphertext decrypts to its text
  with its own password, salt and IV; to `Garbage` or a failure with others,
  since padding may fit by chance. A ciphertext of one block decrypts to nothing,
  which is what do_decrypt makes of it.
* The timestamp is the draw counter, so that two writes differ in it. Two writes
  in one tick of the clock differ in their IV as well, which is what the
  properties speak of.
* The header reaches the file in one piece. A header cut short is a file below
  128 bytes to `read()`, the same as an empty one. An output stream that fails in
  the body leaves any prefix of blocks.
* What the kernel has taken stays: no loss of power, no reordering by the disk.
* A salt drawn for a new file and its IV carry one number. A file of an earlier
  program carries salt and IV 1.
* Failures of the HMAC and key derivation (out of memory only) and `last_error`
  (never initialised, read by nobody in the library) are left out.

### SealedDocument and the refinement

When callers take turns (`Serialised = TRUE`), the class is a register:
`content` is absent, damaged (a file `read()` rejects) or sealed with a document
and a password. During a `write()` the mapping shows what the file held when it
began (history variable `before`), so that `PutBody` is the step that changes
the register. It holds for texts that are not 1 to 15 bytes long.

### ConvertTool

A run of the converter is `ConvertRead`, the steps of `CryptoFile`,
`ConvertWrite`, `ConvertExit`; or `NoPassword`, when the prompt ends without a
password of a length that is allowed: convert() returns false, which main() does
not look at, so that the run exits with success and has touched nothing
(`ExitsWithSuccess`). `SuccessMeansConverted` speaks of the runs that had a
password. `OldResult` is the conversion of an error code
to bool that `read_and_parse_old_version_0010` makes: every error is true.
`mishap` remembers that output was cut short by an error or by the end of a run,
after which the document is gone and a later run reports success with an empty
one; the properties speak of all other histories.

### CipherStream

`EncryptUpdate` is one turn of the loop in `do_encrypt`; `DecryptUpdate` and
`DecryptFinal` are the two calls in `do_decrypt`. `held` is what the EVP context
keeps back, `reach` how far it has written, `room` the length of the output
string. The EVP layer is external: it puts out whole blocks, and in decryption
holds back the last one.

### SuffixArray, SuffixSearch

`Dc3` is `suffixArray`, one function for each of its steps; arrays are sequences
and the padding with zeros is `Byte` behind the end. `radixPass` is modelled by
what it does, a stable sort. `Turns` are `p` and `t` of the merge, turn by turn of
`k`: the code's two inner loops, which copy what one list has left, are the turns in
which nothing is compared (`SampleNext`). Texts are bytes 1 to 255: a text with a 0 inside is
a shorter C string to `strcmp`.

`SuffixSearch` takes the loops of `search()` turn by turn. The three searches are
the same code but for their integer type, which is why each definition is
translated from one of the copies. `pc = "wild"` is undefined behaviour: a read
far outside the array. size_t has `SizeModulus` values instead of 2^64; what
matters is that it wraps, far above the length of a text. Of a text of one byte
DC3 makes an array whose only suffix is empty, which finds nothing
(`FindsAllOccurrences` excepts it; its comment requires two bytes, nothing
checks it).

### RawMode, TerminalSize

A constructor or destructor of `rawmode` is one step: nothing else runs in the
program, and nobody else sets modes. `saved` is `oldtermios`; "unset" is memory
that was never written, which `Destroy` writes to the terminal as any modes.
`alive` holds the objects in the order of their construction, so that lifetimes
may nest or cross. Modes are "cooked" (as at the start), "raw" or "garbage".
Standard input may be the controlling terminal, another one (whose modes nobody
saves, so that it stays raw) or none. A call that reads is two steps, the wait
and the read, between which others read and type. `mishaps` is a history variable. `io` has the same constructor, `save_termios` and
`restore_termios`, and no readers.

`terminal_size` has a step for each system call: sigprocmask, signalfd, the
ioctl, the read. `pending` is the kernel's one SIGWINCH of the process. When
another object takes it, or the ioctl fails after it was taken, `missed` says so.

### Clipboard

The steps are the calls of Xlib the function makes: `Own` takes the selection,
`Take` or `FindNothing` is XCheckTypedEvent, `ReadTimer` the look at the clock
that only an empty queue leads to, `Describe` and `Serve` answer. `owner`, `queue`
and `client` belong to the server and the clients, which may ask, die before the
answer, stop waiting for a request that was dropped, or select something else.
The server maps the window or never does. Answers are only flushed: that to a
client that is gone puts an X error into what the server sends (`Unanswered`),
behind the requests sent before it, while the function goes on, perhaps to hand the
string to another client. Xlib's handler ends the program when the error is read: at
the next look at the queue (`ErrorArrives`), or in XCloseDisplay, which waits for
all that the server has to send (`CloseDisplay`). Calls repeat.

### ChildProcess

`proc` and `fate` are the kernel's table, `asked` the argument of the `try_reap`
in progress. A pid is free again when its child was reaped, and `Fork` may give it
out again. With `autoreap` the program ignores SIGCHLD and the kernel keeps no
statuses. `known` and `discarded` are history: children whose end the program was
not told of, and those whose status was lost to a `try_reap` of any child. A
`fork()` that fails changes nothing; in the child there is one step, its end.

### Readall

`arrived` and `taken` count the bytes of the stream, so that the byte at place k
of the buffer is its number. read(2) gives any number of bytes it has, up to what
was asked for and up to `MaxInt`; or EINTR, another error, or 0 at the end. `ToInt`
is the conversion of the length to the int that is returned.

### Directories

`walks` is the stack of calls: the callback of each but the innermost is running.
`descriptors` only grows, as neither function closes its stream; a call that finds
none left fails. All directories have the same entries, which do not change. `dirent_buf_size()`
cannot fail in this build (`NAME_MAX` is defined, `HAVE_FPATHCONF` is not).

### KeyDerivation, HmacObject

`out` and `ulast` are the variables of `pkcs5_F`: outputs of the PRF are numbered
along the chain (0: what was there when the first HMAC failed), and the XOR is the
set of those it holds, each twice being none. `key` says of each byte written
which block and place it is from. `unnoticed` is history: an HMAC has failed, of
which the code only prints a line.

In `HmacObject` a string is empty, the caller's, zeros, or the digest of the
pieces offered. The strings of the caller are of 20 bytes or more, or empty with
their capacity kept: a shorter one would be written over its end by HMAC_Final.

### RandomText, Split, Words, BitVector

`RandomText` draws reals between the least and the largest character of the set
and cuts off their fractions; `Kept` are the sequences that may be left of the
numbers a turn looks at, of any length unless every number drawn is in the set.
`Split` makes one call in each behaviour, of every
text, view and delimiter; offsets count from 0. A delimiter is a C string (`needle`),
of which a view may have only the beginning (`delim`): strstr looks for the one, the
loop steps over the length of the other. In `Words` and `BitVector` a word
is the set of the positions of its ones; `Words` has no steps, the functions are
compared with their references in all states it begins with. `too_far` is what a
shift by 64 gives, which is undefined. `MappedSetAll` is
what `mapped_bit_vector::set_all` does, memset over the object itself: the pointer
is lost until `map()` (`pointer = "wild"`, where nothing can be read), and the words
stay as they are. `expected` is what was asked for; `missed` are the bits that
set_all() was to change and nothing has written since, of which `BitsAreKept` says
nothing.

## Runs

| run | question | bounds |
|---|---|---|
| `concurrent` | two processes interleave and die anywhere | 2 handles, 1 password, texts of 0 and 2 blocks, 2 further draws |
| `faults` | every fault, both formats and readers, two passwords | 1 handle, texts of 0, 1 and 2 blocks, 2 further draws |
| `turns` | refinement of the register and liveness | 2 handles in turn, 1 password |
| `restart` | the same with crashes, no random bytes, both readers, two passwords | 1 handle |
| `convert` | conversion with the right password or none, started again after a death | 2 runs, texts of 0 and 2 blocks, 3 further draws |
| `computations` | loops of `camellia_256` | lengths up to 130, and around 200, 300 and 400, the common multiple of 16 and 100 |
| | keys; HMAC objects; random texts | blocks of 20, at most 2, lengths around 20 and 40, counts 0 to 3; 2 objects on one string, 2 pieces; sets of 4 characters with gaps, 3 places |
| | four engines against a plain definition of "occurs" | two letters up to length 8, three up to 4, bytes above 127 up to 2; 16 patterns |
| | splitting | texts of two letters up to length 5, all views, delimiters up to length 2 and all their beginnings |
| | counts, masks, bit vectors | all words of 8 bits, in halves of 4; vectors of 0 to 2 words of 3 bits |
| `host` | terminal objects of either class with failing calls | 2 objects each, 1 waiting character, 2 window sizes |
| | the clipboard with its clients and other owners | 2 clients |
| | children and their statuses | 2 pids, used again without end |
| | `readall` | ints up to 3, buffers of 0, 1, 3 and 5, 6 bytes in the stream |
| | directories | 2 entries, 3 descriptors, walks 2 deep |

Texts up to length 8 go through two levels of DC3's recursion and all remainders
of 3; patterns go from below to above all suffixes. Two `rawmode` objects make
every nesting and crossing; a third adds nothing, as an object sees the others
through the terminal's modes only. Two clients are enough for one to be served
while the other waits or is gone, two pids for one child to be reaped by a call
for another. Buffers are smaller than, as large as and larger than the largest
int, and than the stream. The functions on words treat both halves alike whatever
their width, so that halves of 4 bits have every case of halves of 32.

Deadlock is checked except where a model really stops: `computations`, where a
search has met undefined behaviour or the one call of `Split` has returned, and
the converter, when its runs are used up.

Draws: `MaxFresh` bounds `fresh`, which starts at 1. Two writes by two processes
are enough for a header of one and a body of the other, three draws for a new
file written twice. Texts of 0, 1 and 2 blocks are the lengths the code tells
apart (nothing, held back, decrypted). Handles are symmetric, which the
concurrent run uses, and so are passwords, which `faults` uses. The proofs below need none of these bounds.

Runs that find a violation, each of a sentence in the code's own comments,
documentation or test:

| run | statement | what the code does |
|---|---|---|
| `short_text` | crypto_file_test.cc:111 "plain == Decrypt(Encrypt(plain))" | 1 to 15 bytes read back empty, with success |
| `full_device` | crypto_file.hh:106 "write header and all blocks to file" | output errors are not looked at |
| `convert_wrong_password` | convert:30 stops when the reader fails | the file is overwritten with garbage |
| `key_derivation` | crypto.hh:81 "an implementation of the PKCS#5 PBKDF2 PRF" | each block is the XOR of one output more than the iteration count |
| `search_below` | string.cc:228 a search for an absent pattern leaves its loop | `right = mid - 1` wraps, and the array is read far outside |

Where the code goes wrong in a way that needs no search to see, the properties leave
the case out by a condition of theirs, so that what they say of all others is
checked, and the hazard in PROJECT.json says so:

* `count_leading_0()` of 64-bit words gives 0 as soon as the upper half has a bit
  (byte.hh:83-85), which is not "the number of leading 0-bits" (byte.hh:59);
  `WordsAreExact` requires an upper half of 0 there.
* `mapped_bit_vector::set_all()` does not write to the words (bit_vector.hh:125);
  `BitsAreKept` leaves out what it was to change (`missed`).
* `readdir()` and `readdir2()` never close what they open: no property says so.
* `split()` of a view by the beginning of a longer C string looks for all of that
  string; `TokensAreRight` promises no more than that tokens stay inside the view.
* A converter that got no password exits with success (`HadPassword`).
* `getch()` may block after `kbhit()`, against terminal.hh:108, when another process
  takes the input in between: no property says so.
* Objects robbed of a signal, lifetimes that cross, lengths above the largest int,
  HMACs that fail unnoticed, a second `try_reap` of a child, chars above 127 in
  `sarr_dc3`: each is a condition of the property concerned, named in its comment.

Two more sentences are not what the models, and the code, do: a file below 128 bytes is taken for a new one (`ReadNothing`) and not
for one with an invalid header (crypto_file.cc:181), and `write` without `read`
is refused (`RefuseWrite`) and does not create the file (crypto_file.hh:96).

## Fairness

`CryptoFileRefinement`, `CipherStream`, `SuffixSearch`, `ChildProcess` and
`Clipboard` assume weak fairness of the step of a call in progress: the code is
sequential, so a call that was entered runs on, while nobody has to enter one.
The clipboard waits only for MapNotify, which the server need not send; and time
passes (`Expire`). `Readall` assumes it of reads that give bytes or the end:
read(2) returns when there is something to return, and signals do not come for
ever in between (`ReadStep`). `RandomText` assumes that, of numbers drawn again
and again, some are in the set: its smallest character is among those drawn
(`fill' > fill`). `CryptoFile`, `KeyDerivation`, `HmacObject`, `RawMode`,
`TerminalSize`, `Directories`, `Split` and `BitVector` state no liveness.

## Proofs

`CryptoFileProofs` (for any handles, passwords, texts, block counts, faults and
bound on draws, under `DocsAssumption`: block counts are natural, the empty text
alone has none, zeroing keeps them; and `SettingAssumption`):

* `TypeCorrect`: the type invariant is inductive with its last conjunct, that a
  reader past the length test knows a length of at least its header.
* `IvsAreFresh`: with `IvsDrawn`, every IV in use was drawn, so the next is new.
* `ReadsAreAuthentic` and `FailedReadsAreWiped`, from the inductive invariant
  `AuthInv`: a current header in the file is that of a prepared image
  (`HeaderSealed`); so is one a handle has parsed or is about to write
  (`HandleSealed`); inside a reader the text is wiped (`TextWiped`). Nothing is
  said of the file's body: any body may follow a sealed header, and the HMAC in
  the header decides. That an accepted body decrypts (`DecryptedOfCipher`) is
  why `read()` never returns an error with a text in the object.
  Each handle's part of `AuthInv` is shown for the handle that steps
  (`OwnStep`) and for the others (`Frame`, `OtherHandle`).

`CryptoFileRefinementProofs`, for any handles, passwords and texts: the safety half
of `ImplementsRegister` (`RegisterIsImplemented`: `RefSpec` implements
`Register!Steps`). `OrderlyUse` says for whom: callers that take turns, faults
that are deaths and missing random bytes, a file that begins in the current format
or absent, no texts of 1 to 15 bytes; those are the conditions of the runs
`turns` and `restart`. The invariant `OrderInv` adds to `AuthInv` that one handle at most
is inside a call (`OneCaller`), that a reader holds the file's length and then its
header (`InRead`), and that a writer's image is the one the file is getting, header
first (`InWrite`). Each action then is one step of the register, or none: reading
calls by cases of what the file amounts to (`Content`), `Crash` inside `write()`
by how much of the image is there.

`ConvertToolProofs`, for any number of runs that take turns and are never refused
the file (`TakeTurns`):

* `ConvertedStaysConverted`, whatever the passwords: a run that found the new format
  holds no text to write (`OwnFile`), and one run at most is inside its calls
  (`OneRun`).
* `DocumentIsKept` and `SuccessIsTrue` (the latter of runs that had a password), with the right password and without texts
  of 1 to 15 bytes (`RightPassword`, `NoShortTexts`; the runs that find violations
  show that neither can go). `KeepInv`: unless output was cut short, the file is
  the original, converted, or in the middle of output, and every run's salt, IV,
  text and prepared image are of the document (`HasOrigin`, `HasConverted`).

`SuffixArrayProofs`, for all texts without zeros, of any length and alphabet (the names
that DC3 recurs on are such texts too):

* strcmp orders strings totally (`Less` and its lemmas), so suffixes have ranks, and
  the array that sorting leaves names each offset once (`SortedIsSuffixArray`). A
  text has one suffix array (`OneSuffixArray`).
* `Dc3Sorts`: DC3 makes that array. Along its steps:
  * `radixPass` sorts by the keys and keeps the order of equal ones
    (`RadixPassSorts`), so that three passes sort the sample by its triples
    (`SampleIsSorted`).
  * Names compare as triples do (`NamesOfSample`), so the text of names has the
    sample's suffixes in their order (`NamesOrder`). Three bytes on in the text is
    one name on (`SlotMoves`), and two suffixes differ before a comparison of names
    leaves its half of s12: neither has gone further than the end of the text, whose
    place there is the dummy's or the zero behind the names (`NamesKeepOrder`,
    `ReachOrEnd`).
  * Names that are unique are ranks (`UniqueNames`); otherwise they are fewer than
    the text's bytes (`NamesAreFewer`).
  * The positions 0 mod 3 are a byte and then a sample suffix, so a stable pass from
    the sample's order sorts them (`RestIsSorted`).
  * A comparison of step 3 is that of the suffixes (`SampleFirstCompares`); the
    merge loses none, reads no list behind its end and takes the smaller each turn
    (`TurnsStay`, `TurnsGoOn`, `MergeSorts`).
  * `Recursion`: a definition whose body looks at arguments of less measure only
    defines a function. So `Dc3` is what its body makes of it (`Dc3IsItsBody`), and
    the shortest text it would not sort has shorter names it would not sort.

  The comment above `suffixArray` requires two bytes, and the theorem says what
  happens below: none are sorted, of one the dummy is taken (`Dc3OfOneByte`).

`SuffixSearchProofs`, for all texts of bytes 1 to 255 and all patterns:

* `SearchesFindAll` and `SearchesAreDefined`: `SearchInv` has one conjunct for each
  place in the code. In the binary search the pattern is above the ranks before
  `left` and below those behind `right` (`Narrowed`), or `right` has fallen
  from 0 to the largest size_t; behind it the neighbours so far are listed, each once.
* `Dc3BuildsSorted`: `sarr_dc3` searches the same array as the others, from
  `Dc3Sorts`; the two theorems before it rest on that as well.
* `IntSearchIsSafe` needs less: in `sarr_c` the bounds stay in 0 .. n and -1 .. n - 1.

`TerminalProofs`, for any objects, terminals' inputs and failing calls: `ModesComeBack`
and `RawIsKept` from `RawInv`. Besides the two properties it says which object knows
what: the first one alive has saved the original modes (`FirstKeepsModes`), those above
one in raw mode have saved raw mode (`SavedIsRaw`), no modes are garbage before
unset memory was written to the terminal (`NoGarbage`). `NoResizeIsLost`: a descriptor means a blocked signal (`BlockedFirst`) and,
for a read that fails, the signal `poll` saw is still there (`SignalSeen`), which holds
as one object at most is inside a call (`OneCall`).

`HostProofs`:

* `readall`, for buffers and streams of any length and any width of int:
  `PiecesAreJoined` and `ResultIsTrue`. `RInv` adds that inside a call no read has
  failed yet.
* Children, for any pids: `StatusesAreKept`. That an answer stays true needs that
  nobody runs under a pid whose child was just reported (`AnswerStands`).
* The clipboard, for any clients: `PasteIsTold` and the action property
  `SelectionIsLeft`. A client has one request or error on its way, and an
  error only when it is gone (`AskedOnce`), so that only the death of a client ends the
  program; before the display is closed, the result is right unless an error is still to
  come (`CloseTells`).
* Directories, for any depth of walks: `TrueIsEarned`; `DirInv` says it of each call
  in progress and of the last result.
* `HostTypesHold` and `HostIsSafe`: the types of all variables of the six parts, and the
  eight invariants beside them, for `HostSpec`, the specification the run `host` checks.
  A step of it is a step of one part and leaves the others.

`ComputationProofs`:

* Cipher streams, for texts of all lengths an `int` holds: `CipherInv` says that
  inside the loop `ol` is the whole blocks of `input_offset` and `held` its rest;
  `PiecesAddUp` is the arithmetic of pieces against blocks. From it `NoOverrun`
  and `LengthsReturn`.
* Keys, for any block size, key length and count: in the loop the XOR holds each
  output so far once (`ChainIsWhole`), so that the key so far is whole blocks up to
  the current one, each with all rounds (`KeySoFar`), and in the end all of it
  (`KeysAreComplete`).
* HMAC objects, any number on any strings: `HmacsAreWhole`, an action property: an
  object whose state is good was refused no piece (`HmacInv`).
* Random texts, of any set and length: `TextsFit`; what is before `fill` fits, what is
  behind is counted (`FillInv`).
* Splitting, of any text, view and delimiter that is a whole C string (of another, only
  that tokens stay inside the view): `TokensAreThere`. Which occurrences count
  is a recursive definition; there is one set of places that satisfies it
  (`PlacesThatCount`). `SplitInv`: the search begins behind a delimiter that counts
  (`Reached`), and all tokens that end before it are told, in order (`Tells`); or it
  has gone past the view, and only the last token is wrong (`Cut`).
* Bit vectors and words, of any width: `BitsStay` (each place in each word that no
  set_all() has missed agrees with what was asked for last, `WordsAgree`) and `WordFunctionsAreExact` (cardinalities of the
  two halves add up; the largest and smallest positions are where the counts say).
* `ComputationsTypesHold` and `ComputationsAreSafe`: the types of all variables of the
  eight parts (`KeyTyped`, `HmacTyped`, `TextTyped`, `ListsOffsets` are the steps the
  other invariants do not give), and the safety invariants, for `ComputationsSpec`, the
  specification the run `computations` checks.

Where an argument goes by induction (ranks, strings that differ, delimiters that
count, turns of the merge, the recursion of DC3), it is by the smallest counterexample (`Smallest`), as the provers cannot use the
library's induction theorems.

Only model-checked: all liveness, with the fairness half of `ImplementsRegister`
(outside the prover's reach): `WriteReachesFile`, `ComputationsReturn`,
`RequestsAreAnswered`, `HostCallsReturn`. Each safety property of
a passing run has its theorem.

## Plan

1. `CryptoFile`, `SealedDocument`, `ConvertTool`, `CipherStream`, then
   `SuffixSearch`, `RawMode`, `TerminalSize`, their runs and proofs: done.
2. `ChildProcess`, `Readall`, `Clipboard`, `Directories`: done.
3. `HmacObject`, `KeyDerivation`, `RandomText`, `Split`, `Words`, `BitVector`: done.
4. Theorems about every safety property of the runs, the step of `CryptoFile` to
   `SealedDocument`, the DC3 construction and the composed specifications: done.
5. Left is what has no property yet, see the hazards without one: two processes that
   read, edit and write in turn, and a converter that dies during output, are
   nothing the code promises; nor are the cases listed under Runs, which the
   properties leave out.

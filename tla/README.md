# TLA+ for CSCI4273-NetworkSystems

The repository holds four network programs in C: a UDP file transfer (PA1), a
static web server (PA2), a caching web proxy (PA3) and a distributed file
system (PA4).  There are no tests in it.  This directory models all four.

    tlc -workers 2 -config MCDfsSingle.cfg MCDfs       # a run
    tlapm Dfs_proofs.tla                               # the proofs

## Inventory

### PA4, distributed file system (client.c, server.c)

A client `dfc` keeps a TCP connection to each of up to four servers `dfs` it
can reach; a server has one thread per connection.  After login a menu offers
LIST, PUT and GET.

* *State.* Client: the sockets it has (`sockfds`), the locals of `main` and
  `List`, the files it wrote to `Gotten_files`.  Server thread: its place in
  the command loop.  Server: one directory per user, holding piece files
  `name.N`.  Process-wide and unintended: the cursor of `strtok`, and
  `exit(0)` on a wrong password.
* *Operations.* Login (name and password to every server, one answer decides;
  then the name again, whose directory the server makes); LIST (`ls -a`, a
  block per entry, DONE); PUT (md5 of the content modulo 4 selects one of four
  layouts; every server gets two of
  the four pieces); GET (every server sends the numbers of the pieces it has;
  the client answers YES or NO; then four rounds of NEED/DN per server).
* *Hard.* The two programs agree on positions in a byte stream, and nothing
  resynchronises them; a set of servers may be unreachable; the threads of
  several clients append to the same files with stdio buffering in between;
  the threads of a server cut strings with one cursor, and one wrong password
  ends them all.
* *Correct means.* The two ends stay in step; what was put is stored; GET
  gives the file or nothing; enough pieces survive the loss of servers; LIST
  agrees with GET; commands return; who has an account is admitted, and nobody
  else.

### PA3, web proxy (webproxy.c)

`main` starts a detached thread per connection; each thread serves one
request.

* *State.* Three files under a mutex each: `hostname_ip.txt` (`ip_lock`),
  `blacklist.txt` (`black_lock`), `page_avail.txt` (`pg_lock`); the page files
  of `cache/` without one.  They outlive the process.
* *Operations.* Look the host up in the file or with `gethostbyname`; check
  the blacklist; look the hash of the URL up and add it; send the page from
  `cache/`, or fetch it from its origin, send it and write it to `cache/`.
* *Hard.* Threads that ask for the same page or host at once; a page that is
  listed before it is there; early returns between lock and unlock; an origin
  that breaks off; the process being killed in the middle of a page, or ending by
  itself: sockets are never closed, and without a descriptor a null pointer
  follows; `strtok` has one cursor for all threads, and the scan of
  `hostname_ip.txt` uses it too.
* *Correct means.* A page is fetched once and never damaged later; a host
  keeps its address; a page that is cached is served; every request ends.

### PA1, UDP file transfer (Server/uftp_server.c, Client/uftp_client.c)

* *State.* Each client's place in its loop and the files of its directory; the
  server's place, directory and open pipes; the datagrams in flight.
* *Operations.* `ls`, `get`, `put`, `delete`, `exit`.  A file is sent as full
  buffers and a shorter one; there are no numbers, acknowledgements or
  timeouts.  The server takes the next datagram from whoever sent it.
* *Hard.* Loss, duplication, reordering; a second client during a put; files
  whose size or bytes look like the end of a file; names with a command in
  them; a file that one side cannot create; an address without a name, for which
  `error` ends the server; the end of the input, which sends an empty datagram;
  pipes that are never closed.
* *Correct means.* After a put or a get the two files are the same; a client
  reads the reply to its own command; the server stays up; commands return.

`PA1/udp_example` is the course's echo server with its client: a line goes there
and back, nothing is numbered or repeated.  Hard: a late or doubled reply is
read into the buffer of a later line.  Correct: a line comes back as it was
typed.  `PA1/uftp_server.c` and `PA1/uftp_client.c` are unfinished copies of the
two files (a menu text and a debug line without their semicolons); they do not
compile, and add no behaviour.

### PA2, web server (www/serv.c)

A thread per connection reads one request, cuts it with `strtok`, sends the
file it names, or an error 500, and closes the connection.  State: open
descriptors, the cursor of `strtok`, the bytes left to send.  Hard: the file of
a request for `/` is never closed; the cursor is shared; a client that leaves
early makes `write` end the process; the third word of a request is copied into
arrays of fixed size.  Correct: every request is answered with
its own file in full.

## Modules

| module | what it is |
| --- | --- |
| `DfsPlacement` | PUT's arithmetic and tables: `atoi` and `%` of the digest, the sixteen copied blocks (`Uploads`), the cut into four pieces; next to them the ring layout they are meant to be |
| `Dfs` | LIST, PUT, GET: clients, server threads, streams, stores; EXTENDS `DfsPlacement` |
| `Strtok` | external: `strtok` of the C library, with one cursor for a process; no variables |
| `DfsLogin` | PA4 up to the menu, and the part of GET that uses `strtok`; EXTENDS `Strtok` |
| `PageCache` | abstract: what a page cache promises |
| `WebProxy` | PA3: threads, mutexes, files, descriptors, kills; implements `PageCache` (INSTANCE with a refinement mapping) |
| `WebServer` | PA2: connections, the parser of a request, `write_packet`, descriptors; EXTENDS `Strtok` |
| `Uftp` | PA1: clients, server, network |
| `UdpEcho` | PA1's echo example: clients, server, network |
| `DfsPlacement_proofs`, `Dfs_proofs`, `DfsLogin_proofs`, `WebProxy_proofs`, `WebServer_proofs`, `Uftp_proofs`, `UdpEcho_proofs` | theorems about the module of that name |
| `Strtok_proofs` | lemmas about `strtok`, for `WebServer_proofs` and `DfsLogin_proofs` |
| `MCDfsPlacement`, `MCDfs`, `MCDfsLogin`, `MCWebProxy`, `MCWebServer`, `MCUftp`, `MCUdpEcho` | values for TLC; the first one also enumerates the inputs of the operators |

### Dfs and its code

A client's `pc` is where it waits: `menu` (client.c:246), `list` (List, 92),
`collect` (the piece numbers, 608-638), `fetch` and `reply` (the retrieval
loops, 644-687), `gone`, and `ub` for a write outside an array.  A thread's
`pc` is the read it is at: `cmd` (server.c:124), `name`, `size`, `data`,
`num`, `flush` (PUT, 143-178), `file`, `answer`, `need` (GET, 180-255), `spin`
for the loop that a closed connection leaves behind.  One action is the code
from one blocking read to the next, with all writes in between, except that
`fopen` and the `fclose` that writes the bytes are two (`PutNum`,
`PutFlush`).  Abstractions:

* *Scaled bytes.* A block of `MAXLINE` is `MaxLine` bytes with its text in the
  first; an int, a prefixed name and a number in digits are one byte.  Reads
  take lengths, as in the code, so a peer that is out of step reads across
  messages.  A file byte may be the word NO.
* *Whole writes.* A write arrives at once and a read returns what is there, up
  to its length.  TCP may split either; the code would then lose step.
* *Astray.* A thread that reads something which is no name where PUT has its
  name is in a terminal state; what the code does then (`fopen` of arbitrary
  text) is not followed.
* *Order of `ls`.* A server lists its piece files in one arbitrary fixed order.
* *Names in names.* `Within` says which names contain which: the server counts
  with `strstr` the pieces of all of them for a GET.  `due` is what the GET is
  then to fetch: all pieces, a part, or none.  The three calls of `strtok` that
  cut a number out of an entry (194-196) are undisturbed here; `DfsLogin` has
  the cursor they share with the other threads.
* *Buffers.* A piece that is PUT fits the `MAXLINE` bytes that `bzero` clears
  (`NamesAssumption`); the arrays, `char *buf[MAXLINE]`, are eight times as
  long, and what is left in them beyond is not followed.  A GET sends at most
  `MAXLINE` bytes of a piece file (server.c:234), so of a doubled one perhaps
  only a part: `GetPiece` takes that many, and in `dfs_pair` a piece of two
  bytes that is doubled meets the limit.  Files are text: a byte 0 would end
  what `strcpy` and `strlen` see of a piece (163, 235).
* *History.* `sent` and `due` record what PUT sent and what a GET was due to
  fetch; no action reads them.

### DfsLogin and its code

A client's `pc`: `greet` and `wait` (client.c:222-230, per server), `names`
(238-243), `menu`, `out`, `dead`.  A thread's `pc` is before its next read or
call of `strtok`: `creds` (server.c:87), `pass` (91), `line` and `word`
(check_credentials, 58-75), `no` (101), `name` (107), `loop`, and `cut2`, `cut3`
for the calls of GET (193-199).  The strings are in `mem`, the cursor in `cur`, and
`Cut` of `Strtok` is what a call does to them.  A server `Ends` by `exit(0)`, by
a null pointer, by SIGPIPE or when `accept` has no descriptor.  Abstractions:
the buffer of the credentials is empty before it is read (no thread ever ends,
so each has a fresh stack, which is zero); the uninitialised `line` and `len`
of `getline` (server.c:55) are NULL and 0; `stat` and `mkdir` are one step;
writes arrive whole; a write to the socket of a server that has ended may or
may not kill the client; an entry of the directory has the form `.name.txt.N`,
with which the three calls find the number.  A name without its one dot makes
the third call return NULL and ends the server (195-197), and so does a user
name longer than `user_cpy[100]` (89-90): both are left out, and `EndsForCause`
says so.  Descriptors are those of connections, which are never closed, of
`dfs.conf` while a thread reads it, and of the pipe of `ls` during a GET
(`Used`): without one `dfs.conf` is not opened and the client is refused
(59-62), or `popen` returns NULL and the server ends (190-192).  The answer -1
(`Deny`, 100) and `exit(0)` (`Refuse`, 101) are two steps, between which the
client may already give up.
`mixed` records whose calls were interrupted; no action reads it.

### WebProxy and its code

A request is a record of the thread's locals; its `pc` names the call the
thread is at.  Each mutex operation is atomic with the code up to the next
point where another thread can interfere.  `SendCached` reads a file
another thread may be writing; `Receive` sends a chunk to the client and leaves
any part of the `stdio` buffer unwritten.  `fds` counts the descriptors: the
connection, an open file, and the two that the code loses, the socket to the
origin and the file of the blacklist after a hit.  When they have run out a file
is not opened; depending on where, that is an error 500, a refusal, or a null
pointer that ends the process (`NoFile`).  So does a request that is empty
(`NoRequest`), because a client closed at once or `accept` failed.  `Kill` and
these end every thread and lose buffers, not files; the process is started
again.  Threads get their connections in `main`'s order (`IsNext`).

*Torn threads.* `strtok` has one cursor for the process.  A thread uses it while
it cuts its request (`parse`, webproxy.c:229-276, under no lock) and while it cuts
the lines of `hostname_ip.txt` (`scan names`, 75-76, under `ip_lock`).  `Cuts`
marks a thread as torn when it makes its first call while others are at theirs,
and marks these as well.  What a torn thread reads is left open: it may go on as
a request for any URL (`Parse`), miss a line that is there or take any address
(`Found`), or meet a null pointer that ends the process (`NoToken`).  Its URL
still is one URL, with its own host and hash: a request made of two texts, and
pointers into a stack that a later thread reuses, are not followed.  A torn thread
may also write a line for a host that has one; that line comes behind the
first, so the others never find it.

*Abstractions.* A page is its sequence of chunks; the md5 of different URLs
differs; the three text files exist.  A client that leaves changes nothing: all
sends have MSG_NOSIGNAL.  Resolver and origin are external: any of a host's
addresses or none for every lookup, any prefix of the response before the origin
closes.

### WebServer and its code

A thread's `pc` is the call it is at: `read` (serv.c:104), the calls of
`strtok` `method`, `path`, `type` (107-110), `open` (111-145), `header`,
`body`, `rest` (the two loops of write_packet, 52-77), `error`, `close`.
`mem` and `cur` are as in `DfsLogin`, so that a request may be cut in the buffer
of another thread.  The third word of a request is copied: into
`new_message`, 2000 bytes, with an error's text behind it (121-125, 141-145),
and into the header, `MAXLINE` bytes (50).  `Long` are the words that have no room
in the first, `Huge` those of them that have none in the second either; `Overruns`
is such a copy, which ends the process (`OpenFails`, `Opens`): longer than what is
left, 1878 bytes in the first and `MAXLINE` less 75 or so in the second.  A read
that fails leaves a buffer that is zero or
still holds an old request, cut, or the text of an error.  A client may leave: the next
`write` to it may end the process.  When `accept` fails a thread is started for
the connection -1, which writes nowhere.  Abstractions: the content type is
left out, and with it that for a name with none of the known extensions it is
read uninitialised (150-165); a file is its bytes; a directory opens, has the length -1 and no
bytes; the reply goes out whole; the error's text passes through the thread's buffer in
one step, where a thread that was mixed up could change it between the copy and
the `write` (127-128).  Each thread has its own memory, and that is what the stacks of two
threads are; of three, the last may get the stack of one that has ended, where
a thread that was mixed up still points to.  `Separate` is the condition under which
that cannot be, and the hypothesis of `OwnReply`.  `trouble` records for each thread whether its
calls were interrupted, its client left or descriptors were short; no action
reads it.

### Uftp and its code

A client's `pc` is the call it waits in: `menu` (uftp_client.c:74), `get`
(148), `reply` (167); the server's is `cmd` (uftp_server.c:93) or `put` (133).
An action is the code between two of these calls: in particular a client sends
a whole file, and the server answers a whole get, in one action.

A line is a member of `Commands`: the menu with a name or without one, `puts
foo` and `forget x` for other words with `put` and `get` in them, any other
line, `end` for the end of the input and `cut` for a last line that is `delete`
without a newline.  `Class` is the client's search for the words of its menu in
the whole line, so a name may mislead it too (`Words`); `Line` is what it then
sends, an empty datagram at the end of the input (uftp_client.c:69-94, 160).  The
server takes a datagram by its first word.  It ends (`pc = "down"`)

* for an empty datagram or `delete` without a name, by a null pointer (`Crash`,
  uftp_server.c:107-110, 148-149);
* for a command from an address that has no name (`EndServer`, 95-98); the
  datagrams of a put in progress are not looked up (133);
* for `ls` when no descriptor is left (`Ls`, 112-115).

`fopen` fails for a client's names in `NoDirectory` (uftp_client.c:139-142), for the
server's in `Refused` (a missing directory, a file it may not write) and without
a descriptor (`StartPut`, uftp_server.c:123-126): the datagrams that are on
their way are then taken for replies, or for commands.  Abstractions:

* a buffer is `BUFSIZE` bytes, and the text of a command or reply one byte; no
  file spells a command;
* lines end with a newline, but for `cut`, and fit the buffer;
* the byte before the buffer, which both sides read after an empty datagram
  (`buf[n - 1]` with `n = 0`), is the last byte of a socket address in both
  builds that the repository contains, hence 0;
* the output of `ls` is shorter than a buffer; files that are there can be read,
  and disks are not full.

`trouble` records what the protocol has no provision for; no action reads it:

| in `trouble` | what happened |
| --- | --- |
| `fault` | the network lost, doubled or reordered a datagram |
| `overlap` | a put together with a command of another client |
| `line` | a line that the two programs read differently, or a get of a file the client cannot create |
| `end` | the end of the input |
| `refused` | a put of a file that the server cannot create |
| `limit` | a command that needs a descriptor when none is left |
| `nameless` | a command from an address without a name |
| `missing` | a get of a file that is not there |

`Calm` is that nothing but the last has happened.  The properties say what holds
as long as it is calm; they do not survive the others, which is what this code is.

### UdpEcho and its code

`waits` says whether a client is in `recvfrom` (upd_client.c:72) or at its
prompt; `Echo` is one turn of the server's loop (udp_server.c:82-114).  `Into`
is what `recvfrom` does to a buffer that holds something: the server clears its
own first, and the client does not, and asks for no more bytes than it typed.
`EndServer`: an address without a name ends the server (98-100).  `Fault` loses,
doubles or swaps datagrams of one client in one direction.

## Runs

| run | cfg | shows |
| --- | --- | --- |
| `dfs_placement` | `MCDfsPlacement` | for every layout, set of reachable servers and file of up to 25 bytes: the copied blocks are one ring, all pieces are reachable iff no two neighbours are missing, cutting loses nothing |
| `dfs_hash` | `MCDfsHash` | finding: the hash may select no branch |
| `dfs_single` | `MCDfsSingle` | one client, two files, one name in the other, all three commands in any order, with one, two or three servers reached and files left by earlier sessions with any one piece missing: stores, GET, LIST, liveness, durability after the client quits |
| `dfs_pair` | `MCDfsPair` | two clients, one of which lacks the file, of which a piece reads NO: a client that has its files stays in step whatever the other does, GET during PUT yields the pieces in order, each as often as it was stored and cut at `MAXLINE`, nothing is overwritten |
| `dfs_get_during_put` | `MCDfsGetDuringPut` | finding: GET during another client's PUT writes a truncated file |
| `dfs_login` | `MCDfsLogin` | a user with the right password and one with another's log in to two servers at once, one may be killed, one GET, few descriptors: verdicts are right as long as nobody's calls of `strtok` are interrupted and `dfs.conf` can be opened, what ends a server, one answer 1 decides, login ends |
| `proxy` | `MCWebProxy` | three requests, two pages on two hosts, an address and a host blacklisted, kills at any time, threads that tear each other's `strtok` calls, five descriptors: one fetch per page, refinement of `PageCache`, cached pages served, stable addresses for the threads that are not torn, what is lost of the descriptors, and hanging only where `black_lock` was lost |
| `proxy_blacklist` | `MCWebProxyBlacklist` | finding: requests wait for ever after a blacklisted one |
| `web_server` | `MCWebServer` | two requests of seven kinds at once, one without a third word and two with one that is too long, three descriptors, one client that leaves: one's own reply, whole files even after a mix-up, what ends the process, only the index leaks, all are served |
| `uftp` | `MCUftp` | three clients, one at an address without a name, two commands with lines of every kind, a file that clients cannot create and one that the server cannot, one fault, a descriptor limit of one: in calm, files arrive intact, each reply goes to its command, and what it takes to stop a client or the server |
| `uftp_eof` | `MCUftpEof` | finding: a byte 255 at the end of a buffer ends a put |
| `udp_echo` | `MCUdpEcho` | three clients, one of which ends the server, four lines, two faults: exact echoes without faults, with them at least one's own bytes |

*Bounds.* `IntSpan = 64` and `LongMax = 511` scale the 32-bit `int` and 64-bit
`long` of `atoi` and keep the wrap-around and saturation; 700 digest values go
beyond both. Files of 0 to 25 bytes meet each remainder modulo 4 several times.
Five bytes in four pieces make the last piece longer than the others (1, 1, 1,
2). `MaxLine = 2` is the least that tells a block from a number. `ListCap = 10`
in `dfs_single` is just what three servers hold of the two files, so the run is
at the capacity. Two clients are the least that overlap; two opposite servers
hold all pieces, so that GET succeeds with the least state. In `dfs_pair` a
preloaded file plus one more PUT makes appended copies. Three requests let two
fight over a page and a third come in after a kill; pages of two chunks and of
one have a proper part. In `uftp` `BUFSIZE = 2` with files of 2 and 3 bytes has
the empty and the short last datagram, `MaxPipes = 1` lets a second command
meet the limit, and of the four names one is plain, one contains `ls`, one
cannot be created by a client and one not by the server. Five descriptors make
three requests of the proxy run out of them in several ways, and are the least
with which a cached page is read while another is fetched (476,860 states);
kills are not bounded, since a killed request is over. `proxy_blacklist` has
six, so that the lock alone is to blame. In `web_server`
three are one less than two requests with a file need, and a file of three
blocks with `MaxLine = 1` goes through both loops. In `dfs_login` the first server
has five descriptors, for two logins and a GET, or two connections of earlier
clients and thus one file for two readers; the second has none for the pipe of
a GET. In `udp_echo` `BUFSIZE = 3` has an empty
line, a short one and a full one, so a late reply is longer or shorter than the
line it is taken for; two faults make two replies late. `MaxPuts`, `MaxGets`,
`MaxLists`, `MaxKills` (of clients in `dfs_login`), `MaxCommands`, `MaxLines`,
`MaxLeaves` and `MaxFaults`
bound what users and the network do.

*Deadlock* is not checked where the system may stop: clients that have used up
their commands, or, in the proxy and the web server, all requests served.

*Fairness.* Weak fairness of each client's own steps and of each thread: the
processes are scheduled by the operating system and TCP delivers. What the user
types, and quitting, has none; nor has a client of the web server that connects
and does not send. In the proxy weak fairness of a thread includes that an
origin sends more or closes, which is an assumption: the proxy sets no timeout
(webproxy.c:212). In PA1 each client's datagrams are served in the end because
those of all clients wait in one queue of the server's socket; a lost datagram
is not waited for in the fairness, it is a fault. A mutex is handed over under
weak fairness only, which suffices because a thread takes each of them once.

`HangsOnlyBehindBlacklist` is of the form `[]<>`: until the lock is lost there is
always again a moment at which every request that was made has ended.  Each
request is one thread and never goes back, so it is the same as each of them
ending, and TLC has one tableau to build and not three.

## Findings

Where a run shows that the code does something else than the repository says:

1. `dfs_hash`: `atoi(digest) % 4` may be negative, and PUT has branches for 0 to
   3 (client.c:280-563): nothing is uploaded, the servers wait for pieces.
2. `dfs_get_during_put`: a piece file exists before its bytes: GET of another
   client is truncated (server.c:175).
3. `proxy_blacklist`: `check_blacklist` returns with `black_lock` locked
   (webproxy.c:106-117).
4. `uftp_eof`: a datagram that ends with the byte 255 is taken for the end of
   the file (uftp_server.c:135, uftp_client.c:150): the rest is lost.

The models also contain, as behaviour that their properties allow for:
PUT of a missing file leaves the servers inside PUT (client.c:271); GET of a
name that is in another one may write a part of the file (server.c:193); a
wrong password ends the server for all (server.c:101); a page is listed before
it is fetched, so a failed fetch makes an error 500 of every later request for
it (webproxy.c:171); an empty request ends the proxy (231); a long third word ends
the web server (serv.c:50, 122); interrupted calls
of `strtok` refuse a right password, or end a server (server.c:66, serv.c:107).

## Proofs

All for arbitrary constants that satisfy the named assumptions of the modules;
three theorems of `Uftp` and six of `Dfs` have hypotheses more, named below.  Each
proof has the same plan: an inductive invariant that TLC checked first on the
instance of the run, a lemma for each action that says what it changes, a lemma
that it preserves the invariant, and a theorem that combines them.  `TypeOK` is
always a part.

**DfsPlacement.** `LayoutRing`, `CoverTheorem`, `SplitTheorem`, `PutHashRange`:
the sixteen blocks are a ring; which failures lose a piece; the four pieces
joined are the file, of any length, byte by byte through `CutPoints` and
`PieceBounds`; the hash is in -3..3 for any int and long width, so finding 1 is
the only way PUT can miss its branches.  `LayoutsAreRings`, `CoverIsExact` and
`SplitIsLossless` say the same of the specification that the run
enumerates (`Inputs`, an instance of `MCDfsPlacement`): its three invariants hold
for any bounds of the enumeration, not only for 700 digests and 25 bytes.

**Dfs.** `TypeCorrect`: `TypeOK` is inductive as it stands; the work is in the
streams, what a read takes, leaves and says about its bytes.  `NothingLost`
(`[]PiecesGrow`) follows from it: only `PutNum` adds a file and only `PutFlush`
appends.  `ConnectionsInStep` (`[]InStep`) and `DisksHoldWhatWasSent`
(`[]StoredExactly`) come from `Sync`, the invariant about the contents of all
streams at once:

* `Link`: what the client of a connection has written is one text.  It is the
  rest of the command the thread is in, read from the thread's place (`Rest`),
  then any number of PUTs (`Queues`, the least set closed under adding one),
  then the command whose answer the client waits for (`Waits`).  So the next
  read of the thread meets what it expects, byte for byte, however many PUTs are
  behind it, and at the prompt nothing else can be there.  `InLast` and `InFetch`
  are LIST and GET from the answer on.
* A set `K` for each connection holds the pieces that are on their way to a
  disk: still in the stream, or read by the thread but not yet written.  `Ledger`
  balances it: every piece sent to a server is on its way, or on the disk with
  its bytes, and no two connections bring the same.  At rest nothing is on its
  way, which is `StoredExactly`.
* `AtReached`, `Opened`: a client waits only for a server it reached, and a
  thread writes only to a file that it has opened.

`OutputsAreInOrder` (`[]GotInOrder`) adds `Fetched`: for each client and file
there is a set of pieces, all below the one it asks for, of which the output is
the join (`Gathers`), and what a server has answered to the request for a piece
is that piece, nothing or NO (`Answering`).  `ThreadSpeaks` is the new lemma about
the threads: by `Link`, an answer is the listing or the piece that was asked for,
as the disk has it at that moment, and by `Ledger` that is the whole piece, which
one buffer holds, or nothing, even while the PUT of another client is under way.

`FetchedIffDue` (`[]GetIffDue`) and `ListingsAreTrue` (`ListTruthful`) are about what
a client concludes from answers it reads one after the other, some of them long
after they were written.  The key is `DiskIs`: when nothing of a single client's is
on its way to a server (`K = {}`, which `Link` gives from the moment that server
answers), its disk is what it was sent, by `Ledger`; the history `sent` then stays as it is
until the client is back at its prompt, so what is said of the disks can be said
of `sent`, and no later step makes it stale.

* `Tells` and `Shows`: the rest of an answer, with what was read of it before, has all
  the numbers or names that the server was sent, and no others.
* `Hearing`: while the client collects numbers, those marked were sent, and those of
  the servers it is done with are all marked.  After the last DONE the marks are
  the numbers that all servers were sent, which decides between YES and NO.
* `Gathering`: while it fetches, the output is the join of the pieces before the
  current one that any server was sent, and of the current one if a server that
  was asked already has it, which is when it is marked.
* `Settled`: of every other file, and at the prompt of all, the output is what was
  due.
* `Listening`: what List read was sent, and all that the servers it is done with
  were sent was read.

`Exact` is the first four with the answers in flight (`Replying`), `Heard` the last.
`AloneGetsIntact` (`[]GotIntact`) draws the conclusion for names that are in no other:
all four numbers or none are due (`WholeDue`), and by `SplitTheorem` the join of
all pieces is the file.  So the truncated file of finding `dfs_get_during_put`
takes a second client whose PUT the GET overlaps.

Hypotheses: `Hashes \subseteq 0..3` for all six, because with a negative hash PUT
sends a name and no pieces, and the streams are out of step for good (finding
1); and `AllLocalOnce` for all but the first: clients have the files they PUT, and
each file is PUT once.  Without it `StoredExactly` is false: a client that lacks
the file leaves the servers inside PUT (client.c:271), and a second PUT appends a
second copy (server.c:175).  `OutputsAreInOrder` also takes `MaxGets <= 1`, since a
second GET appends to the same output; so do `FetchedIffDue` and `AloneGetsIntact`,
for the same reason, with `NoneIsNo`, since a piece that reads NO is taken for
an absent one (client.c:674).  These two and `ListingsAreTrue` have one client
(`Alone`): another one's PUT can change a disk between two answers.  The
constants' assumption that a piece fits a buffer belongs to the model.  The runs
of
`InStep` and `StoredExactly`, `GetIffDue` and `ListTruthful` are within the
hypotheses; that of `GotInOrder` goes beyond them, with a second PUT of the file
and a client that lacks it, for two clients.

**DfsLogin.** `TypeCorrect`, `ServersEndForCause`, `VerdictsRight`,
`LoginDecided`, `NumbersRight`, all from `LoginInv`:

* `Mail`, `Answered`: what is on its way to a thread, and what it has answered,
  by the place where it is; `Phase`: how far a client is with each server that
  is up.  They carry `LoginDecides`: after the answer of the first server the
  client does not look at the others', which are right because a server that
  denies ends.
* `Own`: as long as no other thread has moved the cursor in between, it is
  where the thread left it, the strings the thread points to are whole, and none
  of the lines before the one it is at is the client's.  So the verdict is right
  (`Right`) after any number of lines.
* `Behind` is what makes `Own` inductive.  A thread that calls `strtok` with
  NULL may write into the buffer of another, and the one whose buffer it is need
  not be marked: it may be past its calls.  But then the cursor is behind the
  end of its string, where a call finds nothing and writes nothing.  So a step
  harms only the strings of threads that it marks in `mixed` (`Spares`), and all
  others keep what the invariant says of them (`OthersKeep`).
* A verdict -1 without dfs.conf is told apart by its line number, which stays 0
  (`CutPass`); `Used` is how many descriptors are in use, and that a thread that is
  at a line has the file open.
* `Cause`: what the property says of a server that has ended.  That a reason,
  once there, remains is part of the proof: nobody leaves `dead`, and the
  threads of a server that has ended stay where they are.

**WebProxy.** `TypeCorrect` includes that no more descriptors are in use than
there are.  The rest goes from one invariant to the next:

* `FetchedOnce` (`[]OneFetch`): when a thread leaves `mark` to fetch, nothing in
  `OneFetch` says that no other thread does.  `PageInv` adds why: a thread that
  searches or adds holds `pg_lock`; a page that is being fetched is listed; and
  a thread that is about to add a URL found it absent, and it still is.
* `OneAddress` (`[]AddressStable`), from `NamesInv`: the file is searched and
  extended under `ip_lock`; while a thread that is not torn asks the resolver no
  line matches its host; what such a thread took for the address is what
  everybody finds first.  A torn thread may add a line for a host
  that has one, but the host keeps its first, and no step of a thread that is torn
  undoes what the invariant says of the others.
* `PagesAreCache`, the refinement of `PageCache`, which states safety only, from
  `PagesInv`: a page that is not listed has an empty file, and the
  thread that fetches one has sent exactly what is in the file and its buffer, a
  start of the page.  Each step of `WebProxy` maps to a step of the cache or to
  none, whatever part of its buffer `stdio` writes at a chunk.
* `CachedIsServed` (`[]WholePageServed`), from `ServedInv`: a page that is saved
  is listed, and as long as no thread was torn its host is known and not
  refused, so a thread that asks for it passes all tests and never asks the
  resolver or the origin.  After a tear the page may come from an address that its
  host does not have, and the host itself be refused: that is all that can
  happen instead.
* `LeaksOnePerRequest` (`[]LeaksBounded`), from `LeakInv`: the descriptors in use
  are those of the threads, by their places, and at most one for each thread
  that was refused, whose blacklist stays open, or went to an origin, connected
  or not.

**WebServer.** `TypeCorrect`; `OnlyIndexLost` from `FdsInv`, which counts the
descriptors by connections and files; `RepliesInFull` (`[]InFull`) from
`ReplyInv`: what a client has received is the header and the first `pos` bytes
of the file its thread holds, so that the two loops of `write_packet` end with
the whole file.  Nothing is assumed of the parser: whatever strtok found, no
reply is cut or mixed.  `RepliesAreOwn`
(`[]OwnReply`, for two threads, or any number while none is mixed up) and
`DownIsCaused` (`[]DownHasCause`) are about the parser.  What a line means is defined in
`WebServer` next to the model: the four calls of `strtok` one after the other in
a buffer that nobody else has (`LineCut` to `TypeCut`, `Meant`), and
`TargetAssumption` says that the constant `Target` is that, which TLC confirms
for targets that `MCWebServer` lists by hand.

* `OwnInv`: while a thread whose calls nobody interrupted cuts its line, its
  buffer and the cursor are those of the reference (`Follows`), because a call
  depends on the bytes of one buffer only (`CutAlike`).
* When it is past its calls, others may have the cursor or a path in its buffer,
  by a call with NULL, but only `Behind` the end of the string of its own path.
  There they may write: a call writes behind the place where it starts
  (`CutBehind`), and so does the name that is cut out of a path in place
  (`Naming`).  So the string at its path stays what the reference found.
* `Chosen`: such a thread opens the file its line means, or sends the error.  With
  `ReplyInv` that gives the reply.
* For the end of the process: a thread dies of its third word only if that of its
  line is missing or too long.  `WordKept` carries the word at `type` from the
  last call to the copy: it is behind the path in the same buffer, and neither
  another thread's call nor moving the path reaches it.  `LeftoversQuiet` and
  `LeftoversShort` show that what a buffer without a request may hold names no
  file, or has a third word, and none that is long.

**Uftp.** `TypeCorrect`; `ServerUp`, `RepliesMatch`, `FilesDelivered`, under the
hypothesis `PlainFiles`: no file holds the byte 255.  With it the three
properties are false, which is finding 4; the files of `MCUftp` satisfy it.  The
invariant `Protocol` says, in calm, at which `Stage` of its command each client
is, and what then is in flight: a put is a suffix of the chunks of the file,
of which the server has written the others; so is a get in the other direction.
A put is `Alone`, and a server in `put` `Receives` the chunks of a client.  In calm
no datagram is empty but the last of a file, none comes from an address without
a name, and the file of a put could be created, so none of the ways in which
the server ends is open.  The
rest is arithmetic of chunks of any `BUFSIZE` (`ChunkFacts`, `Piece`).

**UdpEcho.** `TypeCorrect`, `ExactWithoutFaults`, `NothingForeign` from
`EchoInv`: all datagrams of a client are lines it sent, a buffer has the length
of the line it was typed with and its bytes come from such lines at the same
places; without faults there is one datagram at most.

**Strtok.** `CutProperties`, `CutFinds`, `CutAtEnd`, `CutElsewhere`: types, a
token of one byte in all positions, the end of a string, and that no buffer but
that of the cursor is written.  `TokenIs`, `CutFound`, `CutAlike`, `CutBehind`,
`SameString`: what a token is in a buffer of any length, that the same bytes from
the cursor on give the same token, and what a call leaves as it was.

*Model-checked only.* Liveness (`CommandReturns`, `PutDurable`, `LoginEnds`,
`HangsOnlyBehindBlacklist`, `Served`, `Answered`) is out of the proof system's
reach.

## Not modelled

* Short reads: every write of the TCP programs arrives whole.
* What a torn request of the proxy reads, beyond being any URL of the model.
* Stacks of threads that have ended and are used again, in the proxy and, for
  three or more threads, in the web server.
* An origin that never closes the connection; a crash of a server of PA4 during
  a command (its README:6 excludes it; in `DfsLogin` servers do end).
* What a thread of PA4 does with a stream that is out of step after it has
  taken something for a name.
* Socket set-up beyond its failure, `parse_conf`, menus and messages; content
  types; md5 (a number, or distinct keys); vendored JavaScript, pages and images.

## Plan

Done, in this order because PA4's protocol is the most intricate part and PA3's
shared files the next: `DfsPlacement`, `Dfs`, `PageCache`, `WebProxy`, `Uftp`,
the proofs of the first four; then `Strtok`, `WebServer`, `DfsLogin`,
`UdpEcho`, names in names and the piece NO in `Dfs`, descriptors and the end of
the process in `WebProxy`; then the proofs of the invariants of `WebProxy`,
`UdpEcho`, `WebServer`, `Uftp` and `DfsLogin`, of the streams, the disks, the
outputs and the listings of `Dfs`, and of whose reply `WebServer` sends. Then the
tearing of requests in `WebProxy`, long words in `WebServer`, descriptors of
`dfs.conf` in `DfsLogin`, the cut at `MAXLINE` in `Dfs`, and addresses without a
name, files that cannot be created and the end of the input in `Uftp`, with
their proofs.  To do: the texts of a torn request of the proxy, as a module with
`Strtok` next to `WebProxy`.

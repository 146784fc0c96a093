# TLA+ models of the InstantOS userland (iUserApps)

The repository holds the user programs of InstantOS: the graphics compositor,
the C library's system layer, the dynamic linker, small services and tools, and
test programs. There is no kernel in it; what the kernel and other programs do
is modelled from how this code uses it and marked external.

## 1. Inventory

| part | state | operations | interacts with |
|---|---|---|---|
| compositor backends (`backend.cpp`, `presentation.cpp`, `buffers.cpp`) | two scanout buffers, for each what it is missing and where its pointer was drawn; front, pending, failed | presentFull, presentRect, presentCursorMove, commit, fallBack | called by the event loop; the display takes flips at its vertical blank |
| compositor event loop, surface cache, network watch (`main.cpp`, `surface.cpp`, `platform.cpp`) | window snapshot, cache entries (dirty, unshownLists), dirty flags, shown network state | runOnce and everything it calls; watch_network in its own thread | programs commit and attach surfaces through the kernel; messages wake the loop |
| compositor pointer input (`input.cpp`, taskbar of `scene.cpp`) | buttons, pointer grab, drag, hover | route_pointer_to_window, handle_pointer_event, taskbar_click | window list of the last pass, kernel window control |
| GL backend (`gl_backend.cpp`) | swap chain, texture slots with the surface generation each was uploaded at | surfaceTexture, drawWindow, commit, forgetUnseen | event loop and its surface cache, display |
| wallpaper (`background.cpp`, `protocol.cpp`, background-switcher) | background buffer, blurred bar, their textures on the GPU | load, SetBackground request, draw | switchers, disk, the backend chosen at start |
| scene drawing, assets | loaded images | drawing, decoding | event loop |
| mlibc sysdeps (`outside/mlibc-sysdeps/instantos`) | fdTable, DirStreams, otherwise only what is on a call's stack | one operator per system interface | every ported program, its threads, the kernel |
| ld-instantos | loaded objects | load, relocate, protect, initialise | kernel, /lib |
| log-saver | copy of the log ring, two files | keep_previous, rounds | kernel log, disk |
| terminal, file browser | grid and parser; history stacks and selection | event loops of a window | compositor, shell process, disk |
| network manager, netcfg | the kernel's interface configuration, /etc/resolv.conf and /etc/hosts | watch and write; set and wait | the kernel's DHCP client, readers of the files |
| login, reboot | /autorun.sh and its renamed form | wait for services, rename, run; ask for a reboot | disk, services, bash |
| service daemons, font, process, storage and input manager | a message queue | wait, decode, answer | clients that may die |
| sntp, ping, nslookup | one request or a few in flight | send, wait, retry | network |
| demos, launchers, dmesg, tests | none that lasts | | |

What is hard here: the compositor shares buffers with a display that acts on its
own clock; commits and attachments of surfaces reach the loop along two paths;
two threads share a flag; pointer handling acts on a list that is out of date;
the fd table is shared by threads and uses 0 for "free"; several calls have
error paths that only run when a table is full; the log is followed through a
ring that overflows, on a disk that may fail, on a machine that is reset; the
system layer makes one POSIX call out of several system calls, with other
threads and programs between them; the network loses, delays, repeats and
reorders. The hazards are listed, with their lines, in `PROJECT.json`.

## 2. Modules

| module | models |
|---|---|
| `Presentation` | abstract: what a backend promises the loop |
| `Backend` | the flip backend and the direct ones; implements `Presentation` |
| `BackendProofs` | theorems about `Backend` |
| `CompositorLoop` | one pass of `runOnce()` against programs and the network thread |
| `PointerInput` | pointer events: grab, drag, hover, window buttons, taskbar |
| `FdTable` | fds, handles and directory streams of a program with threads |
| `LogSaver` | the saved kernel log over boots |
| `DynamicLinker` | starting a dynamically linked program |
| `DynamicLinkerProofs` | theorems about `DynamicLinker` |
| `GlBackend` | the GL backend's textures, frames and flips over the surface cache |
| `GlBackendProofs` | theorems about `GlBackend` |
| `VisitHistory` | abstract: what Back and Forward promise |
| `FileBrowser` | the file browser's window; implements `VisitHistory` |
| `Terminal` | the terminal's grid, parser and painting |
| `TerminalProofs` | theorems about `Terminal` |
| `Wallpaper` | the switcher's requests, the background, its blur, how each backend draws it |
| `Compositor` | `CompositorLoop`, `PointerInput` and `Wallpaper` together |
| `CompositorProofs` | theorems about these and `Compositor` |
| `Login` | session start, the one-shot script, reboot |
| `ServiceDaemon` | the four message loops of the services, with their clients |
| `Programs` | `LogSaver`, `Login`, `ServiceDaemon` and `FileBrowser` together |
| `ProgramsProofs` | theorems about `LogSaver`, `Login`, `FileBrowser` and `Programs` |
| `NetworkManager` | the configuration files' watcher, and netcfg |
| `Sntp`, `Ping`, `Lookup` | sntp; ping; nslookup and host |
| `NetSystem` | `NetworkManager`, `Sntp`, `Ping` and `Lookup` together |
| `NetProofs` | theorems about these and `NetSystem` |
| `PosixFile` | abstract: what POSIX promises of a file that is open several times |
| `FileIO` | reads, writes, seeks and positioned I/O; implements `PosixFile` |
| `Paths` | the `*at` calls over directories that move |
| `Sockets` | connect, messages in pieces and with fds, poll and select |
| `ThreadStart` | starting and joining threads, futexes |
| `Libc` | `FdTable`, `FileIO`, `Paths`, `Sockets` and `ThreadStart` together |
| `LibcProofs` | theorems about `FdTable`, `FileIO`, `Paths`, `Sockets` and `Libc` |
| `Clock` | the clocks put together from the kernel's counters, and sleeping |

`MC*` modules give the constants their values; `Clock` and `GlBackend` need
none, as theirs are in a `.cfg` of their own name. Operators written before a
definition and introduced by "Mutant:" are altered forms of it; replacing the
definition by one of them makes the named property fail (`PROJECT.json`,
"mutants").

The modules that put several together have one more variable, which says what a
behaviour is about. The parts of one such module share no state (what they do
share, such as the kernel's window list, each part takes at any time and as out
of date as can be, so it needs no second writer), so interleaving them would add
states and no behaviour of any part. A part that a behaviour is not about stays
in one of its initial states. Parts that do share state are in one module: the
watcher and netcfg, the switcher and the compositor's background, the fd table
and the directory streams, login, bash and reboot.

### Backend

State variables carry the code's names without the underscore. A rectangle is a
set of pixels; `Unite` may cover more than both (the code's bounding box), which
is all the proofs assume of it. A pixel records the colour it was painted with
and the pointer position blended over it, so a pixel of an older pass or of an
older pointer is visible as such. `commit()` is cut at its Display system calls
(`CommitBegin`, `CommitWaited`, `CommitDraw`, `CommitFlip`, `fallBack`,
`FallBackPaint`); `VerticalBlank` may come between any two. A wait that times
out and a flip that is refused are the same action, `fallBack`, since both end
in the same call. The software and vgpu backends, which draw straight into the
framebuffer, are the behaviours that start with `direct`.

### CompositorLoop

`pc` names the system call `runOnce()` is at: three polls (`pump1`..`pump3`),
the wait, draining, the network flag read twice, the list, and the redraws. A
program attaches a surface whenever it likes, before its first commit or long
after the cache forgot it. `waited` records what the cache owes it: how many
changed lists it was left out of since it was committed or shown, until
these are more than `kSurfaceForgetLists`, or until a full cache gave its entry
away (`GivenAway`); `owed` are the surfaces of the last list that must have
pixels. A list that cannot be had is an empty one (`Fetched`). Every commit and
attachment sends the compositor a message, dropped if its queue is full (external).

### PointerInput

A place is the part of the topmost window under the pointer, a taskbar tile,
the bar, or the desktop; the grip lies inside the content, as its rectangle in
`pointer_on_resize_grip()` ends where the content ends. `windows` and `active`
are the snapshot, `state` and `focused` the kernel's truth.

### Wallpaper

A picture is a path and a version, since a file may be replaced, removed or
damaged while its name stays. `load_background()` decodes the file first and then
scales it into the one buffer; a file that cannot be decoded leaves the picture that was
there. The blurred bar is allocated anew,
at an address the allocator may have used before. A backend is chosen at start
from what the machine has, the option and display.cfg. The software, vgpu and
flip backends draw from the buffers; the GL backend from textures that it copies
again when the buffer's path (wallpaper) or the blur's address (bar) differ.
`accepted` is the picture the last STATUS_OK was about.

### FdTable

A call that registers a handle is cut between its system call (`BeginOne`,
`BeginPair`), the scan of the table (`Scan`, `Full`) and the store (`Store`);
`Close` between closing the handle and clearing the entry. `given` is what the
program was told: which handle each of its fds stands for. `exec` takes the
table along as the code's stash does, with the entries of the handles the kernel
closed (`stale`), whose numbers it gives out again. What a call acts on is what its
fd's entry holds, whether the program was given that fd or not: a close(), a dup2()
onto, an F_SETFD or a readdir() of a stale entry reaches whichever fd has its
handle by then (`Misdirected`). `clobbered` records that this happened, or that a
thread stored into an entry that another had found free too; a behaviour ends there,
as nothing can be said of its fds any more.

### FileIO, PosixFile, Paths

`pread` and `pwrite` are four system calls (`SaveOffset`, `SeekTo`,
`Transfer`, `Restore`): the offset is
read, set, used and put back. The refinement maps the offset to the saved one as
long as a call is under way, and the call takes effect with the transfer. Every
system call may fail. The seek back fails unnoticed: the call returns what it would
have and `misplaced` says in this step whose offset is left elsewhere, the one
departure from POSIX that `PosixFile` knows (`PosixMisplaces`): it is seen each time
it happens, so no other step may move an offset unseen. In `Paths` the kernel only knows paths; a path is the
place of its directory and a name, each known by its length, so that cutting a
path to the buffer is what it is in the code: another, shorter, existing name.

### Sockets

A stream is a sequence of numbered bytes; `sendmsg` and `recvmsg` go through
their pieces one system call at a time, each of which may take or give less or
fail. Datagrams are flattened into one buffer, and messages with fds go in one
call. `connect` on a non-blocking kernel socket is its loop of polls.

### ThreadStart

The steps of `PrepareStack`, `Clone`, the trampoline and `ThreadExit`, with the
parent's and the thread's in any order; the thread may run before its id is
published. Waiting on a futex is a yield and waking does nothing, as in the code;
what mlibc's pthread layer does in between is external.

### Clock

`kernel` says which counters the kernel has. With whole seconds of Unix time only,
`ClockGet` is two system calls, between which time passes.

### Login

Scripts are numbered as they are written. login's steps are its system calls;
bash opens the renamed file at some later time, and another script may be
written meanwhile. `GoesDown` may come at any step and keeps the disk.

### ServiceDaemon

`kind` chooses one of four loops, which differ in what ends them: a reply that
cannot be delivered and a payload that cannot be decoded end the font manager,
the daemons and the input manager, and not the process, storage and network
managers. A request is its opcode, whether its version and size are right, and
whether the row exists. Opcodes that a loop does not answer leave their client
waiting in the code too, so the property speaks of those that are answered.

### NetworkManager

A configuration is its generation, its flags and whether the DHCP client runs. A
file is the generation it was written from and whether all of the text is there.
`write_file` is cut at open, write and rename, and the watcher's other steps are
its system calls. One netcfg is followed step by step (`Admins`); what any others
do to the configuration is `OthersSet`.

### Sntp, Ping, Lookup

In `Sntp` the server's clock is right and the local one is off by `skew`; replies
stay in flight for ever, so that they may come late and twice. `Ping` writes the
request's number in place of its time. `Lookup` draws IDs and ports from small
sets, so that they repeat; the answer buffer records which question it answers
and whether bytes of two messages are in it.

### LogSaver

Bytes are numbered as they are logged; the program only sees `Byte(n)`, the
files record n. A gap line is the element `Lost`. `Byte` may repeat itself, so that
`new_lines_start()` finds another place than the one last written to; `misled`
records that it did. `unanchored` records that a round failed before any succeeded.

### DynamicLinker

The initial state is any program: which entries each object needs, which
objects define a symbol, which symbols are weak or copied. `Needs(o)` are the
lists of entries object o may have, of up to `MAX_NEEDED`. A library in `Fixed` is
linked for fixed addresses (ET_EXEC): its base is 0, and the next one's does not move
up. Parsing is reduced to a library being usable, broken or missing.

### GlBackend

A surface's pixels are the number of the commit they belong to (`memory`); the
cache counts commits of its own (`generation`), and a texture remembers the
generation it was uploaded at, as the code does. The cache drops an entry after
`ForgetLists` lists without the surface, a texture lives `KeepFrames` frames
without being drawn, so the texture outlives the entry. A frame records for
each window what was drawn. `restarted` records the surfaces whose entry was
made anew while their texture was kept: the properties of the run `gl` except
them, and `gl_stale` shows why. The wait for the last flip may time out unnoticed
and a flip may be refused.

### FileBrowser

A path is a node of a tree, a search text the set of nodes it matches. Each
action is a button, a key or a row, with `load_directory` and `apply_filter` as
its end, as in the code. The disk changes at any time and nobody tells the
window; a folder that cannot be read, or is gone, is shown empty.

### Terminal

`t` is the code's `Terminal`, and the code's functions on it are operators from
one to the next; `Then` chains them. A byte is a name of what the parser tells
apart, a cell is blank or has text. Whatever is outside the grid is `Old`, so a
cell that comes back into view without being blanked is seen. Parameters are ints
that wrap around (`Word` values); when a negative one takes the cursor's row out of
the grid the code uses it as an index all the same, and the model ends (`lost`). The shell writes
any byte at any time; `on_readable()` reads them one after the other (`Feed`)
until it ends (`OnReadable`) or finds the shell gone (`OnEnd`), and bytes left
unread by an exited shell come first. The toolkit paints what was invalidated
between two handlers; `shown` and `cursors` are what is on screen: the rows
whose cells are right, and the cursor each row shows.

## 3. Runs

| run | instance | shows |
|---|---|---|
| `backend` | 3 pixels, 2 colours, 2 pointer positions, one hanging over the edge | `DrawsOffScreen`, `SettledScreenIsCurrent`, `KeepsPromise` (refinement of `Presentation`), `EventuallyCurrent` |
| `compositor` | loop: 2 windows, 3 surfaces, 2 slots, 4 moves of programs, network and failing lists; pointer: 2 windows, 1 pinned, 2 changes behind its back; wallpaper: 1 switcher, 2 pictures of 2 versions, 2 addresses, 4 backends | `PolledAfterList`, `EventuallyDrawn`, `EventuallyNoticed`; `DragWhileLeftDown`, `DragKeepsWindow`; `WallpaperShown` |
| `gl` | 1 window, 3 surfaces (2 in shared memory), 2 texture slots, 5 moves | `FramesAreFresh`, `TearsOnlyAfterTimeout`, `SettledScreenIsFresh` |
| `linker` | 3 libraries, an alias, 1 symbol, a missing library, a name too long, a fixed library; the program and one library need up to 2, the others up to 1 | `LoadsEachOnce`, `MapsApart`, `OneDefinition`, `Terminates` |
| `terminal` | grids of up to 2 by 2, three sizes, one parameter, an int of 3 bits, any number of bytes | `RowsShown`, `NothingLeftOver` |
| `programs` | log: ring 3, anchor 2, 4 bytes a boot of which two are alike, 1 failure, 3 boots; login: 3 scripts, 3 starts, 2 tries; services: 2 clients, 4 kinds; browser: 4 folders, 2 files, a history of 2, room for 2 entries | `NoSilentLoss`, `PreviousHasStart`, `EventuallySaved`; `AutorunOnce`; `EventuallyAnswered`; `HistoryFits`, `WindowMatches`, `SelectionKept`, `KeepsHistory` (refinement of `VisitHistory`) |
| `libc` | fds: 2 beyond the standard ones, 3 handles, 2 threads, F_DUPFD from 0, 1 directory slot; files: 2 open files, up to 2 bytes; paths: 2 directories, 3 places, 2 names, room for 5; sockets: messages of 1 to 3 pieces, 6 bytes, a buffer of 4, 2 poll slots; threads: 3 | `FdsKeepTheirHandles`, `NothingElseIsLost`; `ImplementsPosix` (refinement of `PosixFile`); `AtFindsItsFile`; `MessagesIntact`; `JoinReturns` |
| `net` | configurations 1 to 4, 1 netcfg and any others; sntp: time up to 10, clock right or 6 behind, timeout 4, 2 tries; ping: 2 or 4 requests, numbers modulo 3; lookup: 2 IDs, 1 port | `ReadersSeeWhole`, `FilesFollowInterface`, `NetcfgSawLease`; `OffsetWithinDelay`; `RequestsAccounted`; `PrintedIsOneAnswer` |
| `pointer_grab` (violated) | as `compositor` | a resize leaves the window holding the pointer (`common.hpp:103`) |
| `fds_dup` (violated) | as `libc`, 1 thread | standard input's entry is taken for free (`sysdeps.cpp:792`) |
| `gl_stale` (violated) | as `gl` | a surface that left the cache and came back is taken for uploaded (`surface.cpp:75`) |
| `clock_back` (violated) | 3 ticks a second, 6 ticks | the wall clock goes back (`sysdeps.cpp:981`): the milliseconds of one second are put behind the next |

Disagreements seen while modelling that no run of its own states (most are a
hazard at their line in `PROJECT.json`, and where a property excepts one, its
definition says so):

- a full redraw lists the windows again with no poll after it, so a window can be
  drawn empty for a pass, which `graphics-compositor/src/main.cpp:178` says is
  prevented (`main.cpp:419`); `PolledAfterList` says that its commit is then
  waiting for the next pass;
- a window is empty until the next commit when its surface was attached after more than
  `kSurfaceForgetLists` changed lists, or a full cache gave its entry away
  (`surface.cpp:114`, `:64`);
- two changes of the network around one redraw leave the taskbar's icon wrong
  (`scene.cpp:247`);
- on the GPU a new picture under the same path, or a blur at the old one's address,
  is not uploaded (`gl_backend.cpp:688`, `:795`);
- `display.cfg` overrides the `--backend=` option when it says software
  (`backend.cpp:355`, against the comment above `config_selects`);
- a terminal window that becomes wider and too short at once shows cells that were
  not blanked (`terminal/src/main.cpp:295`);
- a parameter of many digits wraps around and takes the terminal's cursor out of its
  grid (`terminal/src/main.cpp:266`, `:180`);
- a library linked for fixed addresses may lie where another is mapped
  (`ld-instantos/src/main.cpp:371`);
- with two threads the fd table gives one entry twice (`sysdeps.cpp:183`); after exec,
  entries of close-on-exec handles name whatever got their numbers (`:1396`), and a
  close(), dup2(), F_SETFD or readdir() of one reaches it;
- the result of `pread()`'s and `pwrite()`'s seek back is dropped (`:1870`, `:1886`): if
  it fails the call succeeds with the offset moved;
- the `*at` calls act elsewhere when a directory moves between their two system
  calls, or on another file when the path is cut (`:227`);
- a log that repeats its anchor loses lines without a gap line
  (`log-saver/src/main.cpp:90`), and of a log larger than the ring
  `/previous.log` keeps the start only (`:56`);
- a short write is renamed into place (`network-manager/src/main.cpp:54`), and the
  clock is synchronised once, also when that fails (`:148`);
- `netcfg static` does not wait, although `netcfg.c:8` says it does;
- one client that died, or a request too short for its opcode, ends the font
  manager, the daemons and the input manager (`font-manager/src/main.cpp:419`);
- a TCP exchange that breaks off leaves a mixture of two answers in the buffer that
  is printed (`nslookup.c:119`), and `host -t A` without a record exits with 0.

Bounds. Three pixels in a row are the fewest for which the bounding box of two
changes covers a third pixel; a pointer of two pixels can hang over the edge.
Four moves in `loop` suffice for two commits and two attachments in any order,
interleaved with a visibility or a network change or a failing list, and for an
entry of the cache to age out before its surface is attached; three commits fill the
two slots and give one away. One switcher with two versions of two
pictures replaces a picture under its name and goes back to an earlier one. The
fd table has room for one pair, so that it can be full before, between and after
the two halves of it, and there is a handle left when it is; F_DUPFD from 0 can
take the standard streams' entries, and three handles let one that an exec closed be given
out again while another is open. Two threads are enough for every pair of calls to
race for an entry. The log's ring
overflows with its anchor gone, with it just kept and with it repeated. Three libraries make
chains, diamonds and cycles, and two entries of one library a diamond below it. In `gl` there is a texture slot fewer than there
are surfaces, and five moves let a surface leave the cache and come back while
its texture is kept. The browser's history and list are both smaller than the
tree, so both overflow. The terminal's space is finite without a bound on the
bytes; two rows and columns are enough for wrapping, scrolling, erasing part of a
row or of the screen, and for sizes that hide and show rows, columns or both.
With one parameter at most, the limit of a sequence's parameters is reached too;
three bits are the fewest in which 1, 3 and a negative number are the parameters
a digit repeated makes.
Messages of several
pieces, one of them empty, are longer than the kernel's buffer, so that a call is
cut in any piece. Two bytes let a write be before, at and behind the end. The
room for a path holds every place with the short name but not the longest place
with the long one. Four configurations are a lease, its loss and a second lease.
sntp's time lets the answer to the first try arrive during the second, and ping
runs once past its numbers. Three scripts and starts let one be written while
another is to be run, and the machine go down before and after each step.
`CHECK_DEADLOCK FALSE` is used where the system may stop: in `compositor` when
programs have used up their moves and the loop waits for a message, in
`programs`, `libc`, `net` and `clock_back` when a program has
ended or waits for ever, a behaviour of the fds ends at `clobbered`, or the bound on time
is reached, and in `terminal` when the cursor's row is lost.

Fairness. `Backend`: the compositor's thread keeps running and calls `commit()`
after every pass, and the display keeps refreshing (weak fairness of the first
scene, of commit's steps and of the vertical blank). `CompositorLoop`: both
threads keep running; programs and the network owe nothing. `LogSaver`,
`DynamicLinker` and `ServiceDaemon`: the process is scheduled; clients owe
nothing. `Libc`, in its part about `ThreadStart`: the kernel schedules every thread, which is what a futex
wait that only yields rests on; the holder of the mutex gives it up, as it is
one of the threads. `NetworkManager`: the watcher's thread is scheduled, and
`NetGetConfig` is not refused for ever (strong fairness of `GetConfig`, the only
one: the code retries it every second, and each refusal disables it for a step).

## 4. Proofs

Each group of parts has a proof module that extends its composition. `TLC` agreed
with every inductive invariant, or with what it adds to the properties, on the
instances of section 3 before it was proved. None of the properties below is inductive
as it stands, except `DragWhileLeftDown`.

| module | theorem | statement |
|---|---|---|
| `BackendProofs` | `IInvHolds`, `TypeCorrect` | `Spec => []IInv`, `Spec => []TypeOK` |
| | `DamageIsExact` | `Spec => []BuffersRemember` |
| | `TearFree`, `SettledScreen` | `[]DrawsOffScreen`, `[]SettledScreenIsCurrent` |
| | `Implements` | `KeepsPromise`: refinement of `Presentation` |
| `CompositorProofs` | `PollFindsWhatIsListed` | `[]PolledAfterList` |
| | `DragsEndWithLeft`, `DragsStay` | `[]DragWhileLeftDown`, `DragKeepsWindow` |
| | `AcceptedIsShown` | `[]WallpaperShown` |
| | `CompositorPromises` | the four of them, of `Compositor` |
| `GlBackendProofs` | `FramesStayFresh`, `TearsNeedTimeout`, `ScreensSettleFresh` | `[]FramesAreFresh`, `[]TearsOnlyAfterTimeout`, `[]SettledScreenIsFresh` |
| `DynamicLinkerProofs` | `LibrariesLoadOnce`, `LibrariesMapApart`, `SymbolsHaveOneDefinition` | `[]LoadsEachOnce`, `[]MapsApart`, `[]OneDefinition` |
| `TerminalProofs` | `RowsAreShown`, `NothingComesBack` | `[]RowsShown`, `NothingLeftOver` |
| `ProgramsProofs` | `ScriptsRunOnce` | `[]AutorunOnce` |
| | `PreviousAlwaysHasStart` | `[]PreviousHasStart` |
| | `NothingIsLostSilently` | `[]NoSilentLoss` |
| | `HistoryAlwaysFits`, `ButtonsAlwaysMatch` | `[]HistoryFits`, `[]ButtonsMatch` |
| | `WindowAlwaysMatches`, `SelectionIsKept` | `[]WindowMatches`, `SelectionKept` |
| | `StacksAreAHistory` | `KeepsHistory`: refinement of `VisitHistory` |
| | `ProgramsPromise` | all of these but `ButtonsMatch`, of `Programs` |
| `NetProofs` | `ReadersAlwaysSeeWhole`, `NetcfgSeesItsLease` | `[]ReadersSeeWhole`, `[]NetcfgSawLease` |
| | `OffsetIsClose` | `[]OffsetWithinDelay` |
| | `PingAccounts` | `[]RequestsAccounted` |
| | `LookupPrintsAnswers` | `[]PrintedIsOneAnswer` |
| | `NetPromises` | the five of them, of `NetSystem` |
| `LibcProofs` | `FilesImplementPosix` | `ImplementsPosix`: refinement of `PosixFile` |
| | `AtCallsFindTheirFile` | `[]AtFindsItsFile` |
| | `FdsStandForTheirHandles`, `CallsLoseNothing` | `[]FdsKeepTheirHandles`, `[]NothingElseIsLost` |
| | `MessagesArrive` | `[]MessagesIntact` |
| | `LibcPromises` | the five of them, of `Libc` |

The theorems of the compositions say of a behaviour about one part what that
part's theorem says, and of the others that they stay: a step of the composition
is a step of one part's own next-state relation and leaves the variables of
the rest, so each part's invariant is kept by its own lemma.

### The inductive invariants

**Backend.** That a buffer drawn off screen is
really off screen needs to know where the last flip went, through refusals and
the fallback (`FrontIsKnown`); that a settled screen is current needs to know
what a finished draw left in the back buffer (`StepsLeaveCurrent`), which needs
the damage to be exact (`BuffersRemember`). `IInv` is their conjunction with
`TypeOK`. The refinement uses `IInv` in
every step: `Queue` because the drawn buffer is the current picture, `Land`
because nobody writes to a queued buffer. The arithmetic-free core is in the
lemmas `RepaintIsPicture` and `CursorMoveIsPicture`: repainting what is missing
and blending the pointer gives exactly `Picture`.

**Event loop** (`LoopInv`). A window's pixels are found because a surface that the
cache owes them is on its way to it or in it, and no older there than the
changed lists it was left out of (`Remembered`); and because what the list named and
is owed is still so through the poll after it, or until the full redraw
draws it (`ListedIsKnown`). A full cache gives
one entry away at a time, whose surface is owed nothing from then on.

**Pointer.** `DragWhileLeftDown` is inductive; the action property rests on it: a
press begins a drag only where the button was up before, when there was none.

**Wallpaper** (`WallpaperInv`). The screen is compared with the last accepted
picture over three copies: path and pixels of the buffer go together
(`BufferMatchesPath`), the bar is of that picture (`BarMatchesBuffer`), a
texture's path is of its pixels (`TextureMatchesPath`), and equal addresses mean
equal bars as long as none was used again (`AddressTellsBar`).

**GL backend** (`GlInv`). A texture is drawn unchanged if its generation is the
cache's; that its pixels are then no older than the commits the loop knows
(`TexturesTell`) needs that generations and polled commits are behind the
programs' own (`CommitsCounted`) and that a surface has one texture (`SlotsApart`).
`FramesUpToDate` carries this from drawing to the flip, `FrontIsShown` says which
buffer is on screen through timeouts and refusals.

**Dynamic linker** (`LinkerInv`). Loading is breadth first over a growing list.
Whatever set of libraries contains all that is needed contains what was loaded
(`NeededOnly`), and the entries passed so far are loaded (`EntriesLoaded`); at the
end of the list the two give `AllLoaded`. `Phases` says how far relocation,
protection and initialisation are, `BindsFirst` what the relocated objects got.
`ObjectsOK` and `MapsApart` say that each position-independent load is behind those
before, whichever fixed ones came between.

**Terminal** (`ScreenInv`). Every byte but the end of a sequence with a negative
parameter keeps the cursor's row in the grid, and only changes cells that it notes as dirty (`Good` and the lemmas about `Feeds`). A row
that is not going to be painted shows its cells or is noted (`CellsNoted`); the
only rows with a cursor on screen are the one remembered (`Remembered`) and
those to be painted, so moving the cursor, which notes both rows, leaves one
(`OneCursor`). The old cursor's row need not be in the grid any more after a
resize, which is why `Remembered` speaks of all rows and not of those in view.

**Session start** (`LoginInv`). A script runs after its rename only
(`RunsOnceMoved`), and what `/autorun.old` holds between the rename and bash is of
this start of the machine (`OldIsOfThisStart`), wherever it went down.

**log-saver** (`PreviousInv`, `LogInv`). The copy in memory and the last reading
are each a part of the log as the ring held it (`PartsInOrder`), and the file ends
where the next round begins (`EndsInPlace`), also after rounds that failed. As long
as no round was misled that place is the right one (`RightPlace`); then
what a round appends follows, or a gap line is between.

**File browser** (`HistoryInv`, `RowsInv`). `HistoryFits`, with the types of the stacks, is
inductive: Back and Forward keep the sum of the two heights, so neither finds the
stack it pushes to full. That is what the refinement rests on: a place Back takes
off one stack is never dropped from the other. Its arguments about lists are
the lemmas `VisitedElements` (what is where in the list the two stacks stand
for), `PopPush` and `PushPop` (Back and Forward leave the list as it is) and
`PushVisits` (a new place cuts it, and drops the oldest of a full one). What the
list shows rests on `MatchingIs`, that `apply_filter()`'s loop leaves exactly the
entries that match, in their order, for a folder of any size: the first entry at
which that would go wrong is none. The selection is on its file again because
the name is looked up before the rows it came from are replaced.

**Network.** `NetworkInv`: a file about to be renamed is whole or a write fell short
(`TempWhole`), and no lease came between a netcfg's start and its wait that it
would mistake for the answer (`WaitsForLease`). `SntpInv`: every packet's times
are in order on the clock of who wrote them (`PacketsInOrder`), also in replies
to a try given up; half a delay is whole because the model's times are even
(`Even`). `PingInv`: before the numbers repeat, `sent_at` holds the requests still
to be answered, each in its place (`SentAtInOrder`). `LookupInv`: what is on its way
carries the ID and port of its question (`PacketsMatch`), and the buffer,
once taken, those of the present one (`BufferMatches`).

**Files and paths.** `FileInv` says that nobody moves an offset between its being
saved and sought (`OffsetIsSaved`) and that a call asks for a part of the file
(`AsksForPart`); with it each of the four system calls is a step of
`PosixFile` or a stutter. `PathsInv`: a resolved path leads to its directory
(`PathsLead`) as long as nothing moved and nothing was cut.

**fds** (`FdsInv`). It says the following of every thread (`FdInv`) until a behaviour is
`clobbered`. What the program was given is in the table and open
(`GivenHeld`), what a call in progress has taken no fd has (`TakenApart`) and no
other thread's call (`Apart`), and the entry a call found is free until it stores
there (`FoundFree`), unless another found it too; every open handle has an owner or was lost
by a failed `pipe()` (`HandlesKnown`), every used entry a reason (`EntriesKnown`),
what an exec left behind is no fd of the program (`StaleApart`), and a directory's
slot is an fd's (`StreamsOfFds`).

**Messages** (`SocketsInv`). Every byte of a stream that was sent is received, in the
hands of a `recvmsg()` under way, or on the wire, in this order and each once
(`BytesInOrder`), because a call that goes on has sent or filled all of the pieces
behind it (`SendsWhole`, `ReceivesWhole`). What is on the wire of a datagram socket
are whole datagrams (`DatagramsWhole`). The sums of the pieces' lengths and the
scatter of bytes over them are recursive functions: `RecursionExists` and
`RecursionIsUnique`, proved from the least counterexample (`LeastExists`), take
the place of induction, and with them `SumsAdd` and `SumsGrow` say what the sums
are and `ScatterKeeps` that a scatter loses and moves no byte.

### Assumptions

The theorems assume the named `ASSUME`s of the modules they are about, which give
the constants' types and what the code's constants guarantee; TLC
evaluates them on its instances. No theorem has a further hypothesis: where the
code does not keep a promise, the property itself says up to where it does, and the
model goes there.

| property | says nothing |
|---|---|
| `PolledAfterList` | of a surface never committed, attached after more than `kSurfaceForgetLists` changed lists, or given away by a full cache (`surface.cpp:64`, `:114`) |
| `NoSilentLoss` | of a boot in which bytes logged twice misled a round (`log-saver/src/main.cpp:90`), or a write failed before one succeeded |
| `RowsShown` | from the byte on that ends a sequence with a negative parameter which takes the cursor's row out of the grid (`terminal/src/main.cpp:180`) |
| `LoadsEachOnce` | of how often a library is loaded whose name was cut off (`ld-instantos/src/main.cpp:252`) |
| `MapsApart` | of libraries linked for fixed addresses (`:371`) |
| `FdsKeepTheirHandles`, `NothingElseIsLost` | from the first call on that a stale entry sent to another fd's handle, or store into an entry that two threads had found (`sysdeps.cpp:1396`, `:183`) |
| `ImplementsPosix` | of where an offset is after the kernel refused to put it back (`:1870`, `:1886`), until it is sought again |

The others name their exceptions where they are defined.

### Only model-checked

- Liveness: `EventuallyCurrent`, `EventuallyDrawn`, `EventuallyNoticed`,
  `Terminates`, `EventuallySaved`, `EventuallyAnswered`, `FilesFollowInterface`,
  `JoinReturns`. They rest on fairness, and `ENABLED` is outside the prover.
- The four violations, which are about instances by nature.

## 5. Plan

1. Prove: the type invariants and steps of `ThreadStart`,
   `ServiceDaemon` and `Clock`; that with a lock around the scan and the store
   `FdTable` is clobbered by stale entries only, as the argument for adding one.
2. Extend: the taskbar's and title bars' textures of the GL backend that the CPU
   draws; fork; the terminal's keys; and `CompositorLoop` on `Presentation` in
   place of its own abstraction of drawing.

## 6. Not modelled

Pixel arithmetic, image decoding, text layout and fixed message layouts keep no
state the properties need. Test programs (gpu-test, posix-smoke, the tests among
the net tools) run once against a kernel that is not here; they were read for
what they expect. System calls of the C library that pass their arguments on in
one call, and signals and timers, which the kernel keeps, have no state in this
code. Fork copies a process with its table, and what the copy does is what a
program with that table does. Demos and launchers draw and start programs. Each
part is listed in `PROJECT.json` with its reason.

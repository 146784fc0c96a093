------------------------------- MODULE Wallpaper -------------------------------
(***************************************************************************)
(* The desktop's wallpaper: background-switcher programs ask the           *)
(* compositor for a picture (background-switcher/src/main.cpp), the        *)
(* compositor decodes it into its one background buffer and blurs the part *)
(* under the taskbar (graphics-compositor/src/background.cpp), and the     *)
(* backend it chose at start draws both: from the buffers, or, on the GPU, *)
(* from textures that are copied from them "only when it changed".         *)
(*                                                                         *)
(* A picture is <<path, version>>: the files may be replaced, removed or   *)
(* damaged at any time. A request a switcher sends is well formed; one     *)
(* made within 250 ms of the last, or that cannot reach the compositor,    *)
(* changes no more than the switcher's status line and is no step here.    *)
(***************************************************************************)
EXTENDS Integers, Sequences

CONSTANTS
    Switchers,
    Pictures,       \* the paths under /bin/backgrounds
    DefaultPicture, \* kDefaultBackground
    Addresses,      \* where the allocator may put a blurred bar
    MaxVersions     \* bound: the pictures a path may have

ASSUME WallpaperAssumption ==
    /\ DefaultPicture \in Pictures
    /\ "" \notin Pictures          \* no path yet
    /\ 0 \notin Addresses          \* no bar
    /\ -1 \notin Addresses         \* nothing drawn yet
    /\ MaxVersions \in Nat

VARIABLES
    disk,       \* path -> the version there; 0: nothing, -1: no picture
    backend,    \* "software", "vgpu", "flip" or "gl"
    background, \* DesktopBackground: [storage, ready, path, picture], and barBlur's <<address, picture>>
    textures,   \* the GPU's: [path, picture] of the wallpaper, <<address, picture>> of the bar
    shown,      \* the pictures on screen: [wall, bar]
    desktop,    \* the compositor: [pc, dirty]
    wanted,     \* requests to it: [from, path]
    switcher,   \* each: [pc, entries]
    accepted,   \* the picture the last STATUS_OK was sent for (or found at start)
    reused      \* barBlur lies where the one the GPU drew did, with another picture

drawVars      == <<textures, shown>>
switcherVars  == <<wanted, switcher>>
wallpaperVars == <<disk, backend, background, drawVars, desktop, switcherVars, accepted, reused>>

NoPicture == <<"none", 0>>

-----------------------------------------------------------------------------
(* Start                                                                   *)

\* --backend=word on the command line (a program may be given several).
arg_selects_backend(args, word) == word \in args

\* The word in /display.cfg.
config_selects(cfg, word) == cfg = word

\* `can`: what this machine has, and which backends initialize().
compositor_backend_select(args, cfg, can) ==
    LET forced(word) == arg_selects_backend(args, word) \/ config_selects(cfg, word)
        forceVgpu == arg_selects_backend(args, "vgpu")
        chosen == IF "gl" \in can /\ ~forced("software") /\ ~forceVgpu /\ ~forced("flip") THEN "gl"
                  ELSE IF forced("software") THEN "software"
                  ELSE IF ~forceVgpu /\ "flip" \in can THEN "flip"
                  ELSE IF "vgpu" \in can /\ (forceVgpu \/ "acceleration" \in can) THEN "vgpu"
                  ELSE "software"
    IN  IF "memory" \in can THEN chosen ELSE "software"

\* initializeBackend() and a DesktopBackground of zeros.
WallpaperInit ==
    /\ disk \in [Pictures -> {-1, 0, 1}]
    /\ \E args \in SUBSET {"software", "vgpu", "flip", "gl"}, cfg \in {"software", "flip", "gl", "auto"},
          can \in SUBSET {"gl", "flip", "vgpu", "acceleration", "memory"} :
          backend = compositor_backend_select(args, cfg, can)
    /\ background = [storage |-> FALSE, ready |-> FALSE, path |-> "", picture |-> NoPicture, bar |-> <<0, NoPicture>>]
    /\ textures = [path |-> "", picture |-> NoPicture, bar |-> <<-1, NoPicture>>]
    /\ shown = [wall |-> NoPicture, bar |-> NoPicture]
    /\ desktop = [pc |-> "start", dirty |-> FALSE]
    /\ wanted = <<>>
    /\ switcher = [s \in Switchers |-> [pc |-> "none", entries |-> {}]]
    /\ accepted = NoPicture
    /\ reused = FALSE

-----------------------------------------------------------------------------
(* The picture                                                             *)

Loads(path) == disk[path] > 0

\* ensure_background_storage(): allocated once, for the screen never changes
\* its size; there may be no memory for it.
ensure_background_storage(room) == background.storage \/ room

\* scale_background_image(): what the buffer shows is the file's picture now.
scale_background_image(path) == <<path, disk[path]>>

\* blur_bar_backdrop(): the old one is freed before the new one is allocated,
\* at any address, that one too, or nowhere (0).
blur_bar_backdrop(picture) == {<<0, NoPicture>>} \cup (Addresses \X {picture})

\* The bar the GPU last drew lay at this one's address.
Reused(bar) == bar[1] = textures.bar[1] /\ bar[2] # textures.bar[2]

\* Mutant: the path is not remembered.
PathNotStored(path, room) ==
    LET picture == scale_background_image(path)
    IN  /\ ensure_background_storage(room) /\ Loads(path)
        /\ \E bar \in blur_bar_backdrop(picture) :
              /\ background' = [background EXCEPT !.storage = TRUE, !.ready = TRUE, !.picture = picture, !.bar = bar]
              /\ reused' = Reused(bar)

\* load_background(), succeeding: decoded, scaled into the buffer, the path
\* remembered, the bar blurred.
load_background(path, room) ==
    LET picture == scale_background_image(path)
    IN  /\ ensure_background_storage(room) /\ Loads(path)
        /\ \E bar \in blur_bar_backdrop(picture) :
              /\ background' = [storage |-> TRUE, ready |-> TRUE, path |-> path, picture |-> picture, bar |-> bar]
              /\ reused' = Reused(bar)

\* Failing: for want of memory, or of a picture that can be decoded. The
\* buffer may have been allocated; what it shows stays.
LoadFails(room) ==
    /\ background' = [background EXCEPT !.storage = ensure_background_storage(room)]
    /\ UNCHANGED reused

\* The default picture, or else the first one of the directory that loads: any
\* one, for the default may fail to for want of memory.
load_first_available_background ==
    /\ desktop.pc = "start"
    /\ \E room \in BOOLEAN :
          \/ \E path \in Pictures : load_background(path, room) /\ accepted' = scale_background_image(path)
          \/ LoadFails(room) /\ UNCHANGED accepted
    /\ desktop' = [pc |-> "loop", dirty |-> TRUE]
    /\ UNCHANGED <<disk, backend, drawVars, switcherVars>>

\* build_background_reply(): OK when the picture was loaded, and then the
\* scene is drawn at the end of this pass.
build_background_reply(path) ==
    \E room \in BOOLEAN :
       \/ /\ load_background(path, room)
          /\ desktop' = [desktop EXCEPT !.dirty = TRUE]
          /\ accepted' = scale_background_image(path)
       \/ /\ LoadFails(room)
          /\ UNCHANGED <<desktop, accepted>>

\* The reply lets the switcher go on.
handleSetBackgroundRequest ==
    /\ desktop.pc = "loop" /\ wanted # <<>>
    /\ build_background_reply(Head(wanted).path)
    /\ wanted' = Tail(wanted)
    /\ switcher' = [switcher EXCEPT ![Head(wanted).from].pc = "list"]
    /\ UNCHANGED <<disk, backend, drawVars>>

-----------------------------------------------------------------------------
(* Drawing a whole scene: for a new wallpaper, or for any other reason     *)

\* draw_background(): the buffer, or the gradient.
draw_background == IF background.ready THEN background.picture ELSE NoPicture

\* draw_bar_backdrop(): the blurred bar, or none.
draw_bar_backdrop == background.bar[2]

\* redrawFullScene() with a backend that shows the scene buffer.
DrawScene ==
    /\ desktop.pc = "loop" /\ backend # "gl"
    /\ shown' = [wall |-> draw_background, bar |-> draw_bar_backdrop]
    /\ desktop' = [desktop EXCEPT !.dirty = FALSE]
    /\ UNCHANGED <<disk, backend, background, textures, switcherVars, accepted, reused>>

\* drawTaskbar(): its texture is drawn again when its key is another: of
\* barBlur's address, or of something the bar shows beside it (`other`).
drawTaskbar(other) ==
    IF other \/ background.bar[1] # textures.bar[1] THEN background.bar ELSE textures.bar

\* drawFrame(): the wallpaper is copied when its path (its buffer never
\* changes) is another.
drawFrame(other) ==
    LET wall == IF background.path # textures.path THEN background.picture ELSE textures.picture
        bar  == drawTaskbar(other)
    IN  /\ desktop.pc = "loop" /\ backend = "gl"
        /\ textures' = IF background.ready THEN [path |-> background.path, picture |-> wall, bar |-> bar]
                       ELSE [textures EXCEPT !.bar = bar]
        /\ shown' = [wall |-> IF background.ready THEN wall ELSE NoPicture, bar |-> bar[2]]
        /\ desktop' = [desktop EXCEPT !.dirty = FALSE]
        /\ UNCHANGED <<disk, backend, background, switcherVars, accepted, reused>>

-----------------------------------------------------------------------------
(* A switcher                                                              *)

SwitcherStep(s, next) ==
    /\ switcher' = [switcher EXCEPT ![s] = next]
    /\ UNCHANGED <<disk, backend, background, drawVars, desktop, accepted, reused>>

\* The entries of the directory whose names end in .png, as paths.
PngFiles == {path \in Pictures : disk[path] # 0}

\* Super+B, or its tile: another one starts and reads the directory, once.
load_backgrounds(s) ==
    /\ switcher[s].pc = "none"
    /\ SwitcherStep(s, [pc |-> "list", entries |-> PngFiles])
    /\ UNCHANGED wanted

\* apply_background(): the compositor is asked, and waited for.
apply_background(s, path) ==
    /\ wanted' = Append(wanted, [from |-> s, path |-> path])
    /\ SwitcherStep(s, [switcher[s] EXCEPT !.pc = "asking"])

\* Space, Enter or a double click on any of its entries.
apply(s) ==
    /\ switcher[s].pc = "list"
    /\ \E path \in switcher[s].entries : apply_background(s, path)

\* Escape.
on_key_down(s) ==
    /\ switcher[s].pc = "list"
    /\ SwitcherStep(s, [pc |-> "none", entries |-> {}])
    /\ UNCHANGED wanted

\* Other programs put another picture there, an earlier one again, a damaged
\* one or none.
DiskChanges ==
    /\ \E path \in Pictures, v \in -1 .. MaxVersions : disk' = [disk EXCEPT ![path] = v]
    /\ UNCHANGED <<backend, background, drawVars, desktop, switcherVars, accepted, reused>>

-----------------------------------------------------------------------------
WallpaperNext ==
    \/ load_first_available_background \/ handleSetBackgroundRequest
    \/ DrawScene \/ \E other \in BOOLEAN : drawFrame(other)
    \/ \E s \in Switchers : load_backgrounds(s) \/ apply(s) \/ on_key_down(s)
    \/ DiskChanges

WallpaperSpec == WallpaperInit /\ [][WallpaperNext]_wallpaperVars

-----------------------------------------------------------------------------
\* protocol.cpp:35: with nothing left to draw, the screen shows the picture the
\* last STATUS_OK was sent for, and the taskbar that picture's blur or none,
\* whichever backend draws, whoever asks, and however the files change. On the
\* GPU it may be an earlier picture of the same file, and another one's blur
\* when this one lies where that did (gl_backend.cpp:686: "The wallpaper, again
\* only when it changed" goes by path and address).
WallpaperShown ==
    /\ background.picture = accepted
    /\ desktop.pc = "loop" /\ ~desktop.dirty =>
          /\ shown.wall = accepted \/ (backend = "gl" /\ shown.wall[1] = accepted[1])
          /\ shown.bar \in {accepted, NoPicture} \/ (backend = "gl" /\ reused)
=============================================================================

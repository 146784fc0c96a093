------------------------------ MODULE Compositor ------------------------------
(***************************************************************************)
(* The compositor's loop, its pointer input and its wallpaper. The loop's  *)
(* state (surface cache, window snapshot, dirty flags), the pointer's      *)
(* (route, drag, hover) and the wallpaper's (buffers, textures, requests)  *)
(* have no variable in common but the snapshot, which a pass replaces as a *)
(* whole and which the first two take at any time and as out of date as    *)
(* can be, and the request to draw a full scene, which any of them may     *)
(* make at any time. A behaviour is one of one of them.                    *)
(***************************************************************************)
EXTENDS CompositorLoop, PointerInput, Wallpaper

VARIABLE about  \* what this behaviour is about

compositorVars == <<about, vars, pointerVars, wallpaperVars>>

CompositorInit ==
    /\ about \in {"loop", "pointer", "wallpaper"}
    /\ Init /\ PointerInit /\ WallpaperInit
    /\ about # "wallpaper" => backend = "software" /\ \A path \in Pictures : disk[path] = 0

CompositorNext ==
    \/ about = "loop"      /\ Next          /\ UNCHANGED <<about, pointerVars, wallpaperVars>>
    \/ about = "pointer"   /\ PointerNext   /\ UNCHANGED <<about, vars, wallpaperVars>>
    \/ about = "wallpaper" /\ WallpaperNext /\ UNCHANGED <<about, vars, pointerVars>>

\* Both threads of the loop keep running (CompositorLoop!FairSpec).
CompositorSpec ==
    /\ CompositorInit /\ [][CompositorNext]_compositorVars
    /\ about = "loop" => LoopFairness
=============================================================================

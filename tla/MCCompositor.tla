----------------------------- MODULE MCCompositor -----------------------------
(* Two windows and a surface more than the cache has slots; the second       *)
(* window is of a pinned app. One switcher, which asks again before or after *)
(* the scene is drawn, and two pictures, each of two versions.               *)
EXTENDS Compositor

CONSTANTS w1, w2, s1, s2, s3

TwoWindows    == {w1, w2}
ThreeSurfaces == {s1, s2, s3}
MCPinned      == {w2}

OneSwitcher  == {"switcher"}
TwoPictures  == {"p", "q"}
TwoAddresses == {1, 2}
=============================================================================

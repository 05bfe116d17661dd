--------------------------- MODULE MCArtifactsApi ---------------------------
(* Values of the constants of ArtifactsApi for TLC.                        *)
EXTENDS ArtifactsApi, TLC

(* artifacts.zip, two keys that begin with it, and two others.             *)
NestedKeys == {<<1>>, <<1, 1>>, <<1, 2>>, <<2>>, <<3>>}
=============================================================================

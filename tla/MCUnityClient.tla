---------------------------- MODULE MCUnityClient ----------------------------
(* UnityClient with the bounds its configuration gives.                        *)
EXTENDS UnityClient, TLC
=============================================================================

-------------------------------- MODULE Feeds --------------------------------
(***************************************************************************)
(* The videos that feeds are made of, for the module that writes the feeds *)
(* (Fanout) and the one that reads them (FollowingFeed).  A video is known *)
(* by its place in the order of publication.                               *)
(***************************************************************************)
EXTENDS Integers, Sequences, FiniteSets

CONSTANTS
    Authors,
    MaxVideos     \* bound: videos published

Videos == 1 .. MaxVideos

VARIABLE authorOf   \* the author of each video published
=============================================================================

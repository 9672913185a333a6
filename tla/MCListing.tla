----------------------------- MODULE MCListing ------------------------------
(* The files a/b and a.m, and one that is hidden, in either of two vaults. *)
EXTENDS Listing
CONSTANTS u, w
MCSlugs == <<u, w>>
MCEntries == { << <<97>>, <<98>> >>, << <<97, 46, 109>> >>, << <<46>> >> }
=============================================================================

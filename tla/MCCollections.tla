---------------------------- MODULE MCCollections ----------------------------
(***************************************************************************)
(* Collections on small instances, as StrStore in MCStrStore.              *)
(***************************************************************************)
EXTENDS Collections, MCStrStore

(* In its first run no file of a collection is counted to have more dead   *)
(* bytes than it has.  It may be counted to have fewer: overwriting a      *)
(* field of a hash or adding a member of a set again is not counted.       *)
NeverOvercountsAtFirst == ~reopened => DiscardNeverOvercounts
=============================================================================

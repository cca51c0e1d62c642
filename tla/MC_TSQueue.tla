------------------------------ MODULE MC_TSQueue ------------------------------
(***************************************************************************)
(* A producer and a consumer, two calls each.                              *)
(***************************************************************************)
EXTENDS CNP_TSQueue

CONSTANTS producer, consumer, item

MCThreads == {producer, consumer}
MCItems   == {item}
================================================================================

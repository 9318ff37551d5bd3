------------------------------- MODULE MCSlab -------------------------------
(* Pages of 16 bytes: a cache with several objects on one page (as the     *)
(* caches up to cache_1KB have), one with one object on two pages and one  *)
(* with one object on four pages (cache_4KB and cache_8KB).                *)
EXTENDS Slab

MCSizes == <<4, 16, 32>>
=============================================================================

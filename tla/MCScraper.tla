----------------------------- MODULE MCScraper -----------------------------
(***************************************************************************)
(* Five blocks in three shards, the last one short; two workers and room  *)
(* for one result, so that the workers wait for the writer.                *)
(***************************************************************************)
EXTENDS Scraper

=============================================================================

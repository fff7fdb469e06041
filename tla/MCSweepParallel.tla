--------------------------- MODULE MCSweepParallel ---------------------------
(* Two datasets over two arms, with a repeated arm; any set of cells raises.  *)
EXTENDS SweepParallel

MCJobs == <<<<"syn", "bm25">>, <<"syn", "tfidf">>, <<"dc", "bm25">>, <<"dc", "bm25">>, <<"dc", "tfidf">>>>
MCRaisings == SUBSET {MCJobs[i] : i \in DOMAIN MCJobs}
==============================================================================

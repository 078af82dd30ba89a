----------------------- MODULE MCApplicationPipeline -----------------------
EXTENDS ApplicationPipeline, TLC

(* Candidates, jobs and requests are interchangeable. *)
Symm == Permutations(Candidates) \cup Permutations(Jobs) \cup Permutations(Requests)
============================================================================

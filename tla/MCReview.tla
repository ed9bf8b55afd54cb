------------------------------ MODULE MCReview ------------------------------
(* Shortened pipelines for TLC, with the phases of templates/pipeline.yaml. *)
EXTENDS Review, TLC

MCPhases ==
    [ research |-> [generating |-> "RESEARCHING", review |-> "RESEARCH_REVIEW"],
      script   |-> [generating |-> "SCRIPTING", review |-> "SCRIPT_REVIEW"],
      image    |-> [generating |-> "MEDIA_GENERATION", review |-> "MEDIA_REVIEW"] ]

(* research -> script. *)
TextRequires == [research |-> {}, script |-> {"research"}]
TextOrder == <<"research", "script">>

(* research -> script -> image, one scene. *)
ChainRequires == [research |-> {}, script |-> {"research"}, image |-> {"script"}]
ChainOrder == <<"research", "script", "image">>

OneEach == [research |-> "research", script |-> "script", image |-> "image"]
TextKindOf == [research |-> "research", script |-> "script"]

(* Two versions of an artifact that is approved again, one of the others.  *)
TextVersions == [research |-> 2, script |-> 1]
ChainVersions == [research |-> 2, script |-> 2, image |-> 1]

(* Transactions are interchangeable. *)
AnySession == Permutations(Session)
=============================================================================

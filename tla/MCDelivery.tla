----------------------------- MODULE MCDelivery -----------------------------
(* Delivery for TLC: templates/pipeline.yaml from the script on, without   *)
(* the prompts.                                                            *)
EXTENDS Delivery, TLC

Pipeline ==
    [script |-> {}, scene_set |-> {"script"}, image |-> {"scene_set"}, voice |-> {"scene_set"},
     timeline |-> {"image", "voice"}, render |-> {"timeline"}, caption |-> {"render"},
     thumbnail |-> {"image", "caption"}, package |-> {"render", "caption", "thumbnail"}]

SecondScene == <<2>>

SomePolicies ==
    {{}, {"scene_set", "voice", "render", "caption"}, {"script", "image", "timeline", "thumbnail"}}

Symmetry == Permutations(Worker)
=============================================================================

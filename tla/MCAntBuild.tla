----------------------------- MODULE MCAntBuild -----------------------------
(* Instances of AntBuild for TLC. *)
EXTENDS AntBuild, TLC

Lambda ==
  [target |-> "full", skips |-> {"core-xml"},
   partition |-> TRUE, failOnError |-> TRUE, cleans |-> TRUE]

Local == [Lambda EXCEPT !.skips = {"page-xml"}, !.cleans = FALSE]

\* The ways the build is run: in the Lambda, with either target, with kinds
\* left out, without the partition and tolerating XSLT errors; and locally.
MCConfigs ==
  { Lambda,
    [Lambda EXCEPT !.target = "full-metadata-update", !.skips = {"core-xml", "items"},
                   !.partition = FALSE],
    [Lambda EXCEPT !.skips = {}, !.failOnError = FALSE],
    Local }

ASSUME MCConfigsAreFresh == FreshConfigs

Symmetry == Permutations(Items)
=============================================================================

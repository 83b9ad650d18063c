---------------------------- MODULE MCPlayerSession ----------------------------
EXTENDS PlayerSession

CONSTANTS p1, p2, normal, staff, whisper, red

\* Two states of the channel files: the first starts everybody in staff, the
\* second in normal, without whisper, and the alias of normal keeps its members.
MCConfigurations ==
    {[channels |-> {normal, staff, whisper}, default |-> staff, private |-> {whisper},
      listen |-> {}, managed |-> TRUE],
     [channels |-> {normal, staff}, default |-> normal, private |-> {},
      listen |-> {normal}, managed |-> FALSE]}
=============================================================================

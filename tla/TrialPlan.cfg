SPECIFICATION Spec
CONSTANT Rpms <- MCRpms
INVARIANTS ReadingTellsWhatWasAsked NeverCoolsLess

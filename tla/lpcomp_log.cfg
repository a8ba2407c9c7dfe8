\* As lpcomp.cfg.
SPECIFICATION Spec
PROPERTIES
    LogsBelowWhenBelow

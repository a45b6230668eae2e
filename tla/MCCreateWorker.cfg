SPECIFICATION Spec
PROPERTY
    CreatorEnds

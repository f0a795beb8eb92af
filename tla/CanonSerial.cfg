SPECIFICATION Spec

CONSTANTS
    Actor = {a1}
    Draft = {d1, d2, d3}
    Chapter = {c1, c2}
    NoDraft = NoDraft
    NoChapter = NoChapter
    Edit = Edit
    NoView = NoView
    MaxEdits = 1

SYMMETRY Symmetry

INVARIANTS
    DecisionsAgree
    ColumnsAgree

PROPERTIES
    DecidedOnce
    ExportKept

CHECK_DEADLOCK FALSE

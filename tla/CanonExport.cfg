SPECIFICATION Spec

CONSTANTS
    Actor = {a1, a2}
    Draft = {d1, d2}
    Chapter = {c1}
    NoDraft = NoDraft
    NoChapter = NoChapter
    Edit = Edit
    NoView = NoView
    MaxEdits = 0

SYMMETRY Symmetry

PROPERTIES
    ExportKept

CHECK_DEADLOCK FALSE

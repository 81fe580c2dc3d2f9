CONSTANTS
  Threads = {t1, t2, t3}
  Resources = {new_delete, a, b}
  NewDelete = new_delete
  Null = null
  EarlyCalls = {"get"}
SPECIFICATION Spec
PROPERTIES Progress ImplementsDefaultResource

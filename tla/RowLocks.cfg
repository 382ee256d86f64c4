SPECIFICATION Spec
CONSTANTS
  b1 = b1 b2 = b2 o1 = o1 o2 = o2 o3 = o3 e1 = e1 e2 = e2
  Txs = {t1, t2, t3}
  Bookings = {b1, b2}
  Orders = {o1, o2, o3}
  Events = {e1, e2}
  None = None
  BookingOf <- MCBookingOf
  OrderOf <- MCOrderOf
  Conflicts <- MCConflicts
SYMMETRY Symmetric
INVARIANT DeadlockHasCause
